---- MODULE Spec2Model ----
(***************************************************************************)
(* Settings reconciliation engine of the Zed settings editor:              *)
(*   src/lib/core/merge.ts, src/lib/core/diff.ts,                          *)
(*   src/lib/stores/store-utils.ts (getAllPaths, getValueByPath),          *)
(*   src/lib/stores/settings.svelte.ts (SettingsStore) and                 *)
(*   src/lib/core/json-pointer.ts (parsePointer, createPointer),           *)
(*   src/lib/core/url-sharing.ts (decodeConfig, parseShareUrl) and         *)
(*   src/routes/+page.svelte (loadFromUrl).                                *)
(*                                                                         *)
(* JSON values are tagged records.  Containers (objects, arrays) carry an  *)
(* `id`: the identity of the JavaScript object, so that `===` on           *)
(* containers is equality of ids and structural sharing is visible.        *)
(* Id 0 (NewId) marks a container allocated by the function under study,   *)
(* or one whose identity is not tracked; tracked containers carry ids >= 1.*)
(* In Spec (the store) the identities of the two root objects are tracked, *)
(* in PureSpec (merge and diff as functions), MutationSpec (one store      *)
(* mutation on an overrides tree) and CacheSpec (the store with its caches *)
(* of paths) those of every container.  PointerSpec applies createPointer  *)
(* and parsePointer to sequences of components.  ShareSpec decodes the     *)
(* config parameter of a link, LoadedSpec applies one recorded mutation    *)
(* to a loaded store, ApiSpec is Spec with loadSchema, FairSpec is Spec    *)
(* with the fetch of loadDefaults settling.                                *)
(*                                                                         *)
(* Property names are dot-free, non-empty strings (the dotted-path         *)
(* convention of the source does not support other keys).  A dotted path   *)
(* string is a sequence of tokens, a token being a property name or the    *)
(* separator ".".                                                          *)
(***************************************************************************)
EXTENDS Integers, Sequences, FiniteSets, TLC

\* ------------------------------------------------------------------ bounds
\* numbers that occur as primitive values: 1..MaxNum
MaxNum == 1
\* characters of a JSON Pointer component, components of a pointer
MaxLen == 2
MaxComponents == 2
\* characters of the config parameter of a share link
MaxEncoded == 3

\* ------------------------------------------------------------------ values
Undefined == [k |-> "undef"]
Null == [k |-> "null"]
Num(n) == [k |-> "num", v |-> n]
Str(n) == [k |-> "str", v |-> n]
Arr(id, e) == [k |-> "arr", id |-> id, e |-> e]
Obj(id, f) == [k |-> "obj", id |-> id, f |-> f]

NewId == 0
EmptyFields == << >>
EmptyObj(id) == Obj(id, EmptyFields)

\* property names the inputs use; "0" only arises as an array index
Keys == {"a", "b"}
KeySeq == <<"0", "a", "b">>
Dot == "."

IsUndef(v) == v.k = "undef"
IsNull(v) == v.k = "null"
\* typeof v === 'object' (null included)
TypeofObject(v) == v.k \in {"null", "arr", "obj"}
\* value && typeof value === 'object' && !Array.isArray(value)
IsObj(v) == v.k = "obj"
IsArr(v) == v.k = "arr"
IsContainer(v) == v.k \in {"arr", "obj"}

\* Object.keys(v) of an object or an array (array indices as strings)
IndexKeys == <<"0", "1", "2">>
IndexKey(i) == IndexKeys[i]
ObjectKeys(v) ==
    IF IsObj(v) THEN DOMAIN v.f
    ELSE IF IsArr(v) THEN {IndexKey(i) : i \in DOMAIN v.e}
    ELSE {}

\* v[key] of JavaScript; the caller guarantees v is neither null nor undefined
Prop(v, key) ==
    IF IsObj(v) THEN (IF key \in DOMAIN v.f THEN v.f[key] ELSE Undefined)
    ELSE IF IsArr(v)
         THEN (IF \E i \in DOMAIN v.e : IndexKey(i) = key
               THEN v.e[CHOOSE i \in DOMAIN v.e : IndexKey(i) = key]
               ELSE Undefined)
    \* a string value is one character long: "s"["0"] is "s" itself
    ELSE IF v.k = "str" /\ key = "0" THEN v
    ELSE Undefined

\* a === b : primitives by value, containers by identity; a container whose
\* identity is not tracked (NewId) is identical to no other
StrictEq(a, b) ==
    IF a.k # b.k THEN FALSE
    ELSE IF IsContainer(a) THEN a.id = b.id /\ a.id # NewId
    ELSE a = b

\* ------------------------------------------------------- dotted path strings
\* parts.join('.')
RECURSIVE JoinDots(_)
JoinDots(parts) ==
    IF Len(parts) = 0 THEN << >>
    ELSE IF Len(parts) = 1 THEN <<parts[1]>>
    ELSE <<parts[1], Dot>> \o JoinDots(Tail(parts))

\* path.split('.') on a token sequence; "" stands for an empty segment
RECURSIVE SplitDotsFrom(_, _)
SplitDotsFrom(path, cur) ==
    IF Len(path) = 0 THEN <<cur>>
    ELSE IF Head(path) = Dot THEN <<cur>> \o SplitDotsFrom(Tail(path), "")
    ELSE SplitDotsFrom(Tail(path), Head(path))
SplitDots(path) == SplitDotsFrom(path, "")

\* prefix ? `${prefix}.${key}` : key
ChildPath(prefix, key) == IF Len(prefix) > 0 THEN prefix \o <<Dot, key>> ELSE <<key>>

\* ------------------------------------------------------------ core/diff.ts
Typeof(v) ==
    IF v.k = "undef" THEN "undefined"
    ELSE IF v.k = "num" THEN "number"
    ELSE IF v.k = "str" THEN "string"
    ELSE "object"

\* !value for the values a tree or a whole-tree argument can be
Falsy(v) == v.k \in {"undef", "null"}

RECURSIVE deepEqual(_, _)
deepEqual(a, b) ==
    IF StrictEq(a, b) THEN TRUE
    ELSE IF Falsy(a) \/ Falsy(b) THEN FALSE
    ELSE IF Typeof(a) # Typeof(b) THEN FALSE
    ELSE IF IsArr(a) /\ IsArr(b)
         THEN /\ Len(a.e) = Len(b.e)
              /\ \A i \in DOMAIN a.e : deepEqual(a.e[i], b.e[i])
    ELSE IF IsObj(a) /\ IsObj(b)
         THEN /\ Cardinality(ObjectKeys(a)) = Cardinality(ObjectKeys(b))
              /\ \A key \in ObjectKeys(a) : deepEqual(Prop(a, key), Prop(b, key))
    ELSE FALSE

\* JSON.parse(JSON.stringify(value)): every container of the copy is new
RECURSIVE safeClone(_)
safeClone(v) ==
    IF IsObj(v) THEN Obj(NewId, [key \in DOMAIN v.f |-> safeClone(v.f[key])])
    ELSE IF IsArr(v) THEN Arr(NewId, [i \in DOMAIN v.e |-> safeClone(v.e[i])])
    ELSE v

\* diff without the equality test: every key of the first tree is copied
diff_CopiesAll(effective, defaults) ==
    IF Falsy(effective) THEN EmptyObj(NewId)
    ELSE Obj(NewId, [key \in ObjectKeys(effective) |-> safeClone(Prop(effective, key))])

\* diff that skips the keys unknown to defaults
diff_KnownKeysOnly(effective, defaults) ==
    IF Falsy(effective) THEN EmptyObj(NewId)
    ELSE IF Falsy(defaults) THEN safeClone(effective)
    ELSE Obj(NewId,
             [key \in {kk \in ObjectKeys(effective) :
                          /\ ~IsUndef(Prop(defaults, kk))
                          /\ ~deepEqual(Prop(effective, kk), Prop(defaults, kk))}
                |-> safeClone(Prop(effective, key))])

diff(effective, defaults) ==
    IF Falsy(effective) THEN EmptyObj(NewId)
    ELSE IF Falsy(defaults) THEN safeClone(effective)
    ELSE IF StrictEq(effective, defaults) THEN EmptyObj(NewId)
    ELSE Obj(NewId,
             [key \in {kk \in ObjectKeys(effective) :
                          ~deepEqual(Prop(effective, kk), Prop(defaults, kk))}
                |-> safeClone(Prop(effective, key))])

\* value || {} as the argument of Object.keys
OrEmptyObject(v) == IF Falsy(v) THEN EmptyObj(NewId) ELSE v
\* value?.[key]
OptionalProp(v, key) == IF Falsy(v) THEN Undefined ELSE Prop(v, key)

\* getChangedPaths without the descent into nested objects
getChangedPaths_TopLevel(effective, defaults, basePath) ==
    IF Falsy(effective) /\ Falsy(defaults) THEN {}
    ELSE LET allKeys == ObjectKeys(OrEmptyObject(effective)) \cup ObjectKeys(OrEmptyObject(defaults))
         IN  { basePath \o <<"/", key>> :
                 key \in {k \in allKeys :
                     ~deepEqual(OptionalProp(effective, k), OptionalProp(defaults, k))} }

\* getChangedPaths: a JSON Pointer is the sequence of its "/" and its keys,
\* as `${basePath}/${key}` builds it
RECURSIVE getChangedPaths(_, _, _)
getChangedPaths(effective, defaults, basePath) ==
    IF Falsy(effective) /\ Falsy(defaults) THEN {}
    ELSE LET allKeys == ObjectKeys(OrEmptyObject(effective)) \cup ObjectKeys(OrEmptyObject(defaults))
             Changed(key) ==
                 LET currentPath == basePath \o <<"/", key>>
                     effectiveValue == OptionalProp(effective, key)
                     defaultValue == OptionalProp(defaults, key)
                 IN  IF deepEqual(effectiveValue, defaultValue) THEN {}
                     ELSE {currentPath} \cup
                          (IF IsObj(effectiveValue) /\ IsObj(defaultValue)
                           THEN getChangedPaths(effectiveValue, defaultValue, currentPath)
                           ELSE {})
         IN  UNION {Changed(key) : key \in allKeys}

\* ----------------------------------------------------------- core/merge.ts
\* merge without the early return for empty user settings
RECURSIVE merge_NoEarlyReturn(_, _)
merge_NoEarlyReturn(defaults, user) ==
    IF Falsy(defaults) /\ Falsy(user) THEN EmptyObj(NewId)
    ELSE IF Falsy(defaults) THEN safeClone(user)
    ELSE Obj(NewId,
             [key \in ObjectKeys(defaults) \cup ObjectKeys(user) |->
                LET defaultValue == Prop(defaults, key)
                    userValue == IF Falsy(user) THEN Undefined ELSE Prop(user, key)
                IN  IF IsUndef(userValue) THEN safeClone(defaultValue)
                    ELSE IF IsUndef(defaultValue) THEN safeClone(userValue)
                    ELSE IF IsObj(defaultValue) /\ IsObj(userValue)
                         THEN merge_NoEarlyReturn(defaultValue, userValue)
                    ELSE safeClone(userValue)])

\* merge that keeps the default where both trees hold a value that is not a
\* pair of plain objects
RECURSIVE merge_DefaultWins(_, _)
merge_DefaultWins(defaults, user) ==
    IF Falsy(defaults) /\ Falsy(user) THEN EmptyObj(NewId)
    ELSE IF Falsy(defaults) THEN safeClone(user)
    ELSE IF Falsy(user) \/ ObjectKeys(user) = {} THEN defaults
    ELSE Obj(NewId,
             [key \in ObjectKeys(defaults) \cup ObjectKeys(user) |->
                LET defaultValue == Prop(defaults, key)
                    userValue == Prop(user, key)
                IN  IF IsUndef(userValue) THEN safeClone(defaultValue)
                    ELSE IF IsUndef(defaultValue) THEN safeClone(userValue)
                    ELSE IF IsObj(defaultValue) /\ IsObj(userValue)
                         THEN merge_DefaultWins(defaultValue, userValue)
                    ELSE safeClone(defaultValue)])

\* merge that does not recurse: a nested user object replaces the default one
merge_Shallow(defaults, user) ==
    IF Falsy(defaults) /\ Falsy(user) THEN EmptyObj(NewId)
    ELSE IF Falsy(defaults) THEN safeClone(user)
    ELSE IF Falsy(user) \/ ObjectKeys(user) = {} THEN defaults
    ELSE Obj(NewId,
             [key \in ObjectKeys(defaults) \cup ObjectKeys(user) |->
                LET defaultValue == Prop(defaults, key)
                    userValue == Prop(user, key)
                IN  IF IsUndef(userValue) THEN safeClone(defaultValue)
                    ELSE safeClone(userValue)])

RECURSIVE merge(_, _)
merge(defaults, user) ==
    IF Falsy(defaults) /\ Falsy(user) THEN EmptyObj(NewId)
    ELSE IF Falsy(defaults) THEN safeClone(user)
    ELSE IF Falsy(user) \/ ObjectKeys(user) = {} THEN defaults
    ELSE Obj(NewId,
             [key \in ObjectKeys(defaults) \cup ObjectKeys(user) |->
                LET defaultValue == Prop(defaults, key)
                    userValue == Prop(user, key)
                IN  IF IsUndef(userValue)
                    THEN (IF IsObj(defaultValue) THEN safeClone(defaultValue)
                          ELSE defaultValue)
                    ELSE IF IsUndef(defaultValue) THEN safeClone(userValue)
                    ELSE IF IsObj(defaultValue) /\ IsObj(userValue)
                         THEN merge(defaultValue, userValue)
                    ELSE IF TypeofObject(userValue) /\ ~IsNull(userValue)
                         THEN safeClone(userValue)
                    ELSE userValue])

\* ---------------------------------------------------- stores/store-utils.ts
\* getAllPaths returns an array without duplicates; it is used through its
\* set of elements and through `length > 0`
RECURSIVE getAllPaths(_, _)
getAllPaths(obj, prefix) ==
    UNION { LET currentPath == ChildPath(prefix, key)
                value == Prop(obj, key)
            IN  IF IsObj(value)
                THEN (LET nestedPaths == getAllPaths(value, currentPath)
                      IN  IF nestedPaths # {} THEN nestedPaths ELSE {currentPath})
                ELSE {currentPath}
          : key \in ObjectKeys(obj) }

\* getAllPaths with its memo: the paths the call returns and the pathsCache
\* it leaves.  cache is a set of entries [id, prefix, paths]: the WeakMap
\* keyed by object identity, then by prefix.  The nested calls of one call
\* look up and add entries with prefixes of their own, so each of them finds
\* in the cache what it would find after its elder siblings.
RECURSIVE getAllPathsMemo(_, _, _)
getAllPathsMemo(obj, prefix, cache) ==
    IF \E entry \in cache : entry.id = obj.id /\ entry.prefix = prefix
    THEN [paths |-> (CHOOSE entry \in cache :
                        entry.id = obj.id /\ entry.prefix = prefix).paths,
          cache |-> cache]
    ELSE LET nested(key) == getAllPathsMemo(Prop(obj, key), ChildPath(prefix, key), cache)
             pathsOf(key) ==
                 LET currentPath == ChildPath(prefix, key)
                     value == Prop(obj, key)
                 IN  IF IsObj(value)
                     THEN (IF nested(key).paths # {} THEN nested(key).paths
                           ELSE {currentPath})
                     ELSE {currentPath}
             paths == UNION {pathsOf(key) : key \in ObjectKeys(obj)}
         IN  [paths |-> paths,
              cache |-> cache
                        \cup UNION {nested(key).cache :
                                      key \in {kk \in ObjectKeys(obj) : IsObj(Prop(obj, kk))}}
                        \cup {[id |-> obj.id, prefix |-> prefix, paths |-> paths]}]

\* getValueByPath of store-utils: a step is taken only from a plain object,
\* from anything else the result is undefined
RECURSIVE ReadParts(_, _)
ReadParts(current, parts) ==
    IF Len(parts) = 0 THEN current
    ELSE IF IsObj(current) THEN ReadParts(Prop(current, Head(parts)), Tail(parts))
    ELSE Undefined
readValueByPath(obj, path) == ReadParts(obj, SplitDots(path))

\* ------------------------------------------------ stores/settings.svelte.ts
\* path.split('.').reduce((current, key) => current?.[key], obj)
RECURSIVE ReduceOptional(_, _)
ReduceOptional(current, parts) ==
    IF Len(parts) = 0 THEN current
    ELSE ReduceOptional(IF Falsy(current) THEN Undefined
                        ELSE Prop(current, Head(parts)),
                        Tail(parts))
getValueByPath(obj, path) == ReduceOptional(obj, SplitDots(path))

RECURSIVE storeDeepEqual(_, _)
storeDeepEqual(a, b) ==
    IF StrictEq(a, b) THEN TRUE
    ELSE IF Falsy(a) \/ Falsy(b) THEN FALSE
    ELSE IF Typeof(a) # Typeof(b) THEN FALSE
    ELSE IF IsArr(a)
         THEN /\ IsArr(b)
              /\ Len(a.e) = Len(b.e)
              /\ \A i \in DOMAIN a.e : storeDeepEqual(a.e[i], b.e[i])
    ELSE IF Typeof(a) = "object"
         THEN /\ Cardinality(ObjectKeys(a)) = Cardinality(ObjectKeys(b))
              /\ \A key \in ObjectKeys(a) :
                    /\ key \in ObjectKeys(b)
                    /\ storeDeepEqual(Prop(a, key), Prop(b, key))
    ELSE FALSE

computeCustomPaths(defaults, user) ==
    {path \in getAllPaths(user, << >>) : IsUndef(getValueByPath(defaults, path))}

\* _computeChangedPaths that only looks at paths defaults knows
computeChangedPaths_KnownOnly(defaults, user) ==
    IF ObjectKeys(user) = {} THEN {}
    ELSE {path \in getAllPaths(user, << >>) :
            /\ ~IsUndef(getValueByPath(defaults, path))
            /\ ~storeDeepEqual(getValueByPath(user, path), getValueByPath(defaults, path))}

computeChangedPaths(defaults, user) ==
    IF ObjectKeys(user) = {} THEN {}
    ELSE {path \in getAllPaths(user, << >>) :
            ~storeDeepEqual(getValueByPath(user, path), getValueByPath(defaults, path))}

\* parent paths of an atomic path: parts.slice(0, i).join('.'), 1 <= i < length
ParentPaths(atomicPath) ==
    LET parts == SplitDots(atomicPath)
    IN  {JoinDots(SubSeq(parts, 1, i)) : i \in 1..(Len(parts) - 1)}

\* _updateAtomicPathsCache that looks at the defaults reference only
updateAtomicPathsCache_DefaultsGate(defaults, user, apc, cache) ==
    IF StrictEq(apc.lastDefaultsRef, defaults)
    THEN [apc |-> apc, cache |-> cache]
    ELSE LET defaultPaths == getAllPathsMemo(defaults, << >>, cache)
             userPaths == getAllPathsMemo(user, << >>, defaultPaths.cache)
             allPaths == defaultPaths.paths \cup userPaths.paths
         IN  [apc |-> [allPaths |-> allPaths,
                       hasChildrenSet |-> UNION {ParentPaths(atomicPath) : atomicPath \in allPaths},
                       lastDefaultsRef |-> defaults,
                       lastUserRef |-> user],
              cache |-> userPaths.cache]

\* _updateAtomicPathsCache: the atomicPathsCache and the pathsCache it leaves
updateAtomicPathsCache(defaults, user, apc, cache) ==
    IF StrictEq(apc.lastDefaultsRef, defaults) /\ StrictEq(apc.lastUserRef, user)
    THEN [apc |-> apc, cache |-> cache]
    ELSE LET defaultPaths == getAllPathsMemo(defaults, << >>, cache)
             userPaths == getAllPathsMemo(user, << >>, defaultPaths.cache)
             allPaths == defaultPaths.paths \cup userPaths.paths
         IN  [apc |-> [allPaths |-> allPaths,
                       hasChildrenSet |-> UNION {ParentPaths(atomicPath) : atomicPath \in allPaths},
                       lastDefaultsRef |-> defaults,
                       lastUserRef |-> user],
              cache |-> userPaths.cache]

\* { ...v }: own enumerable properties of an object or an array
Spread(v) == [key \in ObjectKeys(v) |-> Prop(v, key)]

\* _cloneWithStructuralSharing without the clean-up of empty objects
RECURSIVE cloneWithStructuralSharing_NoCleanup(_, _, _, _, _)
cloneWithStructuralSharing_NoCleanup(obj, path, value, operation, ids) ==
    LET parts == SplitDots(path)
        first == Head(parts)
        restPath == JoinDots(Tail(parts))
        result == Spread(obj)
        With(child) == Obj(ids[1], [key \in DOMAIN result \cup {first} |->
                                      IF key = first THEN child ELSE result[key]])
        Without == Obj(ids[1], [key \in DOMAIN result \ {first} |-> result[key]])
    IN  IF Len(parts) = 1
        THEN (IF operation = "set" THEN With(value) ELSE Without)
        ELSE IF \/ first \notin DOMAIN result
                \/ ~TypeofObject(result[first])
                \/ IsNull(result[first])
             THEN (IF operation = "delete"
                   THEN Obj(ids[1], result)
                   ELSE With(cloneWithStructuralSharing_NoCleanup(
                                EmptyObj(NewId), restPath, value, operation, Tail(ids))))
        ELSE With(cloneWithStructuralSharing_NoCleanup(
                      Obj(NewId, Spread(result[first])),
                      restPath, value, operation, Tail(ids)))

\* _cloneWithStructuralSharing that descends into an empty object instead of
\* a copy of result[first]
RECURSIVE cloneWithStructuralSharing_DropsSiblings(_, _, _, _, _)
cloneWithStructuralSharing_DropsSiblings(obj, path, value, operation, ids) ==
    LET parts == SplitDots(path)
        first == Head(parts)
        restPath == JoinDots(Tail(parts))
        result == Spread(obj)
        With(child) == Obj(ids[1], [key \in DOMAIN result \cup {first} |->
                                      IF key = first THEN child ELSE result[key]])
        Without == Obj(ids[1], [key \in DOMAIN result \ {first} |-> result[key]])
    IN  IF Len(parts) = 1
        THEN (IF operation = "set" THEN With(value) ELSE Without)
        ELSE IF first \notin DOMAIN result /\ operation = "delete"
             THEN Obj(ids[1], result)
        ELSE LET nested == cloneWithStructuralSharing_DropsSiblings(
                               EmptyObj(NewId), restPath, value, operation, Tail(ids))
             IN  IF operation = "set" THEN With(nested)
                 ELSE IF ObjectKeys(nested) = {} THEN Without
                 ELSE With(nested)

\* _cloneWithStructuralSharing on a deep copy of obj
RECURSIVE cloneWithStructuralSharing_DeepCopy(_, _, _, _, _)
cloneWithStructuralSharing_DeepCopy(obj, path, value, operation, ids) ==
    LET parts == SplitDots(path)
        first == Head(parts)
        restPath == JoinDots(Tail(parts))
        result == Spread(safeClone(obj))
        With(child) == Obj(ids[1], [key \in DOMAIN result \cup {first} |->
                                      IF key = first THEN child ELSE result[key]])
        Without == Obj(ids[1], [key \in DOMAIN result \ {first} |-> result[key]])
    IN  IF Len(parts) = 1
        THEN (IF operation = "set" THEN With(value) ELSE Without)
        ELSE IF \/ first \notin DOMAIN result
                \/ ~TypeofObject(result[first])
                \/ IsNull(result[first])
             THEN (IF operation = "delete"
                   THEN Obj(ids[1], result)
                   ELSE With(cloneWithStructuralSharing_DeepCopy(
                                EmptyObj(NewId), restPath, value, operation, Tail(ids))))
        ELSE LET nested == cloneWithStructuralSharing_DeepCopy(
                               Obj(NewId, Spread(result[first])),
                               restPath, value, operation, Tail(ids))
             IN  IF operation = "set" THEN With(nested)
                 ELSE IF ObjectKeys(nested) = {} THEN Without
                 ELSE With(nested)

\* _cloneWithStructuralSharing that writes into obj and into the objects on
\* the path instead of copies of them
RECURSIVE cloneWithStructuralSharing_InPlace(_, _, _, _, _)
cloneWithStructuralSharing_InPlace(obj, path, value, operation, ids) ==
    LET parts == SplitDots(path)
        first == Head(parts)
        restPath == JoinDots(Tail(parts))
        result == Spread(obj)
        With(child) == Obj(obj.id, [key \in DOMAIN result \cup {first} |->
                                      IF key = first THEN child ELSE result[key]])
        Without == Obj(obj.id, [key \in DOMAIN result \ {first} |-> result[key]])
    IN  IF Len(parts) = 1
        THEN (IF operation = "set" THEN With(value) ELSE Without)
        ELSE IF \/ first \notin DOMAIN result
                \/ ~TypeofObject(result[first])
                \/ IsNull(result[first])
             THEN (IF operation = "delete"
                   THEN Obj(obj.id, result)
                   ELSE With(cloneWithStructuralSharing_InPlace(
                                EmptyObj(NewId), restPath, value, operation, Tail(ids))))
        ELSE LET nested == cloneWithStructuralSharing_InPlace(
                               result[first],
                               restPath, value, operation, Tail(ids))
             IN  IF operation = "set" THEN With(nested)
                 ELSE IF ObjectKeys(nested) = {} THEN Without
                 ELSE With(nested)

\* _cloneWithStructuralSharing; ids[1], ids[2], ... are the identities of the
\* objects `result` of this call and of the nested calls.  The object built
\* for result[first] before the nested call is replaced by the nested call's
\* result and never escapes.
\* _cloneWithStructuralSharing that deletes top-level keys only
RECURSIVE cloneWithStructuralSharing_TopLevelDelete(_, _, _, _, _)
cloneWithStructuralSharing_TopLevelDelete(obj, path, value, operation, ids) ==
    LET parts == SplitDots(path)
        first == Head(parts)
        restPath == JoinDots(Tail(parts))
        result == Spread(obj)
        With(child) == Obj(ids[1], [key \in DOMAIN result \cup {first} |->
                                      IF key = first THEN child ELSE result[key]])
        Without == Obj(ids[1], [key \in DOMAIN result \ {first} |-> result[key]])
    IN  IF Len(parts) = 1
        THEN (IF operation = "set" THEN With(value) ELSE Without)
        ELSE IF operation = "delete" THEN Obj(ids[1], result)
        ELSE IF \/ first \notin DOMAIN result
                \/ ~TypeofObject(result[first])
                \/ IsNull(result[first])
             THEN With(cloneWithStructuralSharing_TopLevelDelete(
                          EmptyObj(NewId), restPath, value, operation, Tail(ids)))
        ELSE With(cloneWithStructuralSharing_TopLevelDelete(
                      Obj(NewId, Spread(result[first])),
                      restPath, value, operation, Tail(ids)))

RECURSIVE cloneWithStructuralSharing(_, _, _, _, _)
cloneWithStructuralSharing(obj, path, value, operation, ids) ==
    LET parts == SplitDots(path)
        first == Head(parts)
        restPath == JoinDots(Tail(parts))
        result == Spread(obj)
        With(child) == Obj(ids[1], [key \in DOMAIN result \cup {first} |->
                                      IF key = first THEN child ELSE result[key]])
        Without == Obj(ids[1], [key \in DOMAIN result \ {first} |-> result[key]])
    IN  IF Len(parts) = 1
        THEN (IF operation = "set" THEN With(value) ELSE Without)
        ELSE IF \/ first \notin DOMAIN result
                \/ ~TypeofObject(result[first])
                \/ IsNull(result[first])
             THEN (IF operation = "delete"
                   THEN Obj(ids[1], result)
                   ELSE With(cloneWithStructuralSharing(
                                EmptyObj(NewId), restPath, value, operation, Tail(ids))))
        ELSE LET nested == cloneWithStructuralSharing(
                               Obj(NewId, Spread(result[first])),
                               restPath, value, operation, Tail(ids))
             IN  IF operation = "set" THEN With(nested)
                 ELSE IF ObjectKeys(nested) = {} THEN Without
                 ELSE With(nested)

\* ------------------------------------- core/diff.ts: settingsDetailedDiff
\* Object.entries order: integer-like keys first, then the other keys
OrderedKeys(obj) == SelectSeq(KeySeq, LAMBDA key : key \in ObjectKeys(obj))

RECURSIVE getAllPathsFromObject(_, _)
RECURSIVE PathsFromEntries(_, _, _)
PathsFromEntries(obj, prefix, keys) ==
    IF Len(keys) = 0 THEN << >>
    ELSE LET key == Head(keys)
             value == Prop(obj, key)
             currentPath == ChildPath(prefix, key)
         IN  (IF IsObj(value)
              THEN <<currentPath>> \o getAllPathsFromObject(value, currentPath)
              ELSE <<currentPath>>)
             \o PathsFromEntries(obj, prefix, Tail(keys))
getAllPathsFromObject(obj, prefix) == PathsFromEntries(obj, prefix, OrderedKeys(obj))

\* setValueByPath writes into obj; the operator gives obj after the call.
\* current is always a plain object here: the paths come from
\* getAllPathsFromObject, which descends into plain objects only, and the
\* delta holds copies of their values or objects created on the way.
RECURSIVE SetParts(_, _, _)
SetParts(current, parts, value) ==
    LET part == Head(parts)
        Put(v) == Obj(current.id, [key \in DOMAIN current.f \cup {part} |->
                                     IF key = part THEN v ELSE current.f[key]])
    IN  IF Len(parts) = 1 THEN Put(value)
        ELSE IF \/ part \notin DOMAIN current.f
                \/ ~TypeofObject(current.f[part])
                \/ IsNull(current.f[part])
             THEN Put(SetParts(EmptyObj(NewId), Tail(parts), value))
        ELSE Put(SetParts(current.f[part], Tail(parts), value))
setValueByPath(obj, path, value) == SetParts(obj, SplitDots(path), value)

\* the loop of settingsDetailedDiff over userPaths
RECURSIVE DetailedLoop(_, _, _, _)
DetailedLoop(userPaths, userSettings, defaults, acc) ==
    IF Len(userPaths) = 0 THEN acc
    ELSE LET path == Head(userPaths)
             userValue == getValueByPath(userSettings, path)
             defaultValue == getValueByPath(defaults, path)
         IN  DetailedLoop(Tail(userPaths), userSettings, defaults,
                 IF IsUndef(defaultValue)
                 THEN [acc EXCEPT !.added = Append(@, path),
                                  !.delta = setValueByPath(@, path, safeClone(userValue))]
                 ELSE IF ~deepEqual(userValue, defaultValue)
                 THEN [acc EXCEPT !.modified = Append(@, path),
                                  !.delta = setValueByPath(@, path, safeClone(userValue))]
                 ELSE acc)

NoDetails == [added |-> << >>, modified |-> << >>, removed |-> << >>, delta |-> EmptyObj(NewId)]
OrEmpty(v) == IF Falsy(v) THEN EmptyObj(NewId) ELSE v

\* settingsDetailedDiff that also lists the paths of defaults missing from
\* the user settings as removed
settingsDetailedDiff_ListsRemoved(userSettings, defaults) ==
    IF Falsy(userSettings) /\ Falsy(defaults) THEN NoDetails
    ELSE LET result == DetailedLoop(getAllPathsFromObject(OrEmpty(userSettings), << >>),
                                    OrEmpty(userSettings), OrEmpty(defaults), NoDetails)
         IN  [result EXCEPT !.removed =
                 SelectSeq(getAllPathsFromObject(OrEmpty(defaults), << >>),
                           LAMBDA path : IsUndef(getValueByPath(OrEmpty(userSettings), path)))]

settingsDetailedDiff(userSettings, defaults) ==
    IF Falsy(userSettings) /\ Falsy(defaults) THEN NoDetails
    ELSE DetailedLoop(getAllPathsFromObject(OrEmpty(userSettings), << >>),
                      OrEmpty(userSettings), OrEmpty(defaults), NoDetails)

\* ------------------------------------------------------ core/json-pointer.ts
\* a string is a sequence of characters
Chars == {"~", "/", "0", "1"}
Slash == "/"
Tilde == "~"

\* s.replace(/c/g, r) for a character c
RECURSIVE ReplaceChar(_, _, _)
ReplaceChar(s, c, r) ==
    IF Len(s) = 0 THEN << >>
    ELSE (IF Head(s) = c THEN r ELSE <<Head(s)>>) \o ReplaceChar(Tail(s), c, r)

\* s.replace(/pat/g, r) for a pattern of two characters: the matches are
\* found from left to right and do not overlap
RECURSIVE ReplacePair(_, _, _)
ReplacePair(s, pat, r) ==
    IF Len(s) < 2 THEN s
    ELSE IF SubSeq(s, 1, 2) = pat THEN r \o ReplacePair(SubSeq(s, 3, Len(s)), pat, r)
    ELSE <<Head(s)>> \o ReplacePair(Tail(s), pat, r)

escapePointerComponent(component) ==
    ReplaceChar(ReplaceChar(component, Tilde, <<Tilde, "0">>), Slash, <<Tilde, "1">>)

\* unescaping with the two replacements in the other order
unescapePointerComponent_TildeFirst(component) ==
    ReplacePair(ReplacePair(component, <<Tilde, "0">>, <<Tilde>>), <<Tilde, "1">>, <<Slash>>)

unescapePointerComponent(component) ==
    ReplacePair(ReplacePair(component, <<Tilde, "1">>, <<Slash>>), <<Tilde, "0">>, <<Tilde>>)

\* s.split('/')
RECURSIVE SplitSlashFrom(_, _)
SplitSlashFrom(s, cur) ==
    IF Len(s) = 0 THEN <<cur>>
    ELSE IF Head(s) = Slash THEN <<cur>> \o SplitSlashFrom(Tail(s), << >>)
    ELSE SplitSlashFrom(Tail(s), Append(cur, Head(s)))
SplitSlash(s) == SplitSlashFrom(s, << >>)

\* parts.join('/')
RECURSIVE JoinSlash(_)
JoinSlash(parts) ==
    IF Len(parts) = 0 THEN << >>
    ELSE IF Len(parts) = 1 THEN parts[1]
    ELSE parts[1] \o <<Slash>> \o JoinSlash(Tail(parts))

parsePointer(pointer) ==
    IF Len(pointer) = 0 THEN << >>
    ELSE IF pointer = <<Slash>> THEN << << >> >>
    ELSE LET trimmed == IF Head(pointer) = Slash THEN Tail(pointer) ELSE pointer
             parts == SplitSlash(trimmed)
         IN  IF Len(trimmed) = 0 THEN << >>
             ELSE [i \in DOMAIN parts |-> unescapePointerComponent(parts[i])]

createPointer(components) ==
    IF Len(components) = 0 THEN << >>
    ELSE <<Slash>> \o JoinSlash([i \in DOMAIN components |->
                                   escapePointerComponent(components[i])])

\* ------------------------------------------------------ core/url-sharing.ts
\* A URL is a sequence of tokens: characters, and the parameter names
\* "config=" and "x=" (a name with its equals sign).
\* characters a config parameter is made of: base64 letters and digits, the
\* URL-safe "-" and "_", "+" (a space to URLSearchParams), padding, and a
\* character no base64 alphabet has
EncChars == {"e", "3", "0", "M", "-", "_", "+", "=", "!"}
Space == " "
\* the base64 alphabet, as far as EncChars reaches it
Base64Value == ("e" :> 30) @@ ("3" :> 55) @@ ("0" :> 52) @@ ("M" :> 12)
               @@ ("+" :> 62) @@ ("/" :> 63)

\* the bytes of base64 characters; a last group of two or three characters
\* gives one or two bytes, the remaining bits are dropped
RECURSIVE Base64Bytes(_)
Base64Bytes(s) ==
    IF Len(s) < 2 THEN << >>
    ELSE LET v(i) == Base64Value[s[i]]
             b1 == v(1) * 4 + v(2) \div 16
             b2 == (v(2) % 16) * 16 + v(3) \div 4
             b3 == (v(3) % 4) * 64 + v(4)
         IN  IF Len(s) = 2 THEN <<b1>>
             ELSE IF Len(s) = 3 THEN <<b1, b2>>
             ELSE <<b1, b2, b3>> \o Base64Bytes(SubSeq(s, 5, Len(s)))

\* window.atob: ASCII whitespace is removed, then one or two padding
\* characters of a string whose length is a multiple of four; a length of
\* 4n + 1 or a character outside the alphabet throws
atob(data) ==
    LET stripped == SelectSeq(data, LAMBDA c : c # Space)
        n == Len(stripped)
        unpadded ==
            IF n % 4 = 0 /\ n > 0 /\ stripped[n] = "="
            THEN (IF stripped[n - 1] = "=" THEN SubSeq(stripped, 1, n - 2)
                  ELSE SubSeq(stripped, 1, n - 1))
            ELSE stripped
    IN  IF \/ Len(unpadded) % 4 = 1
           \/ \E i \in DOMAIN unpadded : unpadded[i] \notin DOMAIN Base64Value
        THEN [threw |-> TRUE, value |-> << >>]
        ELSE [threw |-> FALSE, value |-> Base64Bytes(unpadded)]

\* JSON.parse on a text given by its bytes.  The grammar is that of JSON
\* for texts of at most three bytes, the longest four base64 characters
\* give: a number, "{}", "[]", an array of one number, a string of at most
\* one character, each with whitespace around and inside the brackets.
JsonWhitespace == {32, 9, 10, 13}
Digits == 48..57
RECURSIVE TrimLeft(_)
TrimLeft(text) ==
    IF Len(text) > 0 /\ Head(text) \in JsonWhitespace THEN TrimLeft(Tail(text)) ELSE text
RECURSIVE TrimRight(_)
TrimRight(text) ==
    IF Len(text) > 0 /\ text[Len(text)] \in JsonWhitespace
    THEN TrimRight(SubSeq(text, 1, Len(text) - 1))
    ELSE text
Trim(text) == TrimRight(TrimLeft(text))
Inner(text) == SubSeq(text, 2, Len(text) - 1)

\* number = [ "-" ] int [ "." digits ] [ ("e" | "E") [ "+" | "-" ] digits ]
RECURSIVE NumberFrom(_, _)
NumberFrom(state, text) ==
    IF Len(text) = 0 THEN state \in {"zero", "int", "frac", "exp"}
    ELSE LET c == Head(text)
             next ==
                 IF state = "start" /\ c = 45 THEN "minus"
                 ELSE IF state \in {"start", "minus"} /\ c = 48 THEN "zero"
                 ELSE IF state \in {"start", "minus", "int"} /\ c \in Digits THEN "int"
                 ELSE IF state \in {"zero", "int"} /\ c = 46 THEN "dot"
                 ELSE IF state \in {"dot", "frac"} /\ c \in Digits THEN "frac"
                 ELSE IF state \in {"zero", "int", "frac"} /\ c \in {101, 69} THEN "e"
                 ELSE IF state = "e" /\ c \in {43, 45} THEN "sign"
                 ELSE IF state \in {"e", "sign", "exp"} /\ c \in Digits THEN "exp"
                 ELSE "reject"
         IN  next # "reject" /\ NumberFrom(next, Tail(text))
IsJsonNumber(text) == NumberFrom("start", text)

RECURSIVE DigitsValue(_)
DigitsValue(text) ==
    IF Len(text) = 0 THEN 0
    ELSE 10 * DigitsValue(SubSeq(text, 1, Len(text) - 1)) + (text[Len(text)] - 48)
\* a number with a sign, a fraction or an exponent keeps its text
JsonNumber(text) ==
    IF \A i \in DOMAIN text : text[i] \in Digits THEN Num(DigitsValue(text))
    ELSE [k |-> "num", v |-> text]

JsonParse(text) ==
    LET t == Trim(text)
        n == Len(t)
        Threw == [threw |-> TRUE, value |-> Undefined]
        Parsed(v) == [threw |-> FALSE, value |-> v]
    IN  IF n = 0 THEN Threw
        ELSE IF IsJsonNumber(t) THEN Parsed(JsonNumber(t))
        ELSE IF n >= 2 /\ t[1] = 123 /\ t[n] = 125 /\ Len(Trim(Inner(t))) = 0
             THEN Parsed(EmptyObj(NewId))
        ELSE IF n >= 2 /\ t[1] = 91 /\ t[n] = 93 /\ Len(Trim(Inner(t))) = 0
             THEN Parsed(Arr(NewId, << >>))
        ELSE IF n >= 2 /\ t[1] = 91 /\ t[n] = 93 /\ IsJsonNumber(Trim(Inner(t)))
             THEN Parsed(Arr(NewId, <<JsonNumber(Trim(Inner(t)))>>))
        ELSE IF /\ n >= 2 /\ t[1] = 34 /\ t[n] = 34
                /\ \A i \in DOMAIN Inner(t) : Inner(t)[i] >= 32 /\ Inner(t)[i] \notin {34, 92}
             THEN Parsed([k |-> "str", v |-> Inner(t)])
        ELSE Threw

\* while (base64.length % 4) base64 += '='
RECURSIVE PadBase64(_)
PadBase64(base64) ==
    IF Len(base64) % 4 # 0 THEN PadBase64(Append(base64, "=")) ELSE base64

\* decodeConfig: the value it returns, or that it threw
decodeConfig(encoded) ==
    LET base64 == PadBase64(ReplaceChar(ReplaceChar(encoded, "-", <<"+">>), "_", <<"/">>))
        json == atob(base64)
    IN  IF json.threw THEN [threw |-> TRUE, value |-> Undefined]
        ELSE JsonParse(json.value)

\* s.split(sep) for a separator of one token
RECURSIVE SplitOnFrom(_, _, _)
SplitOnFrom(s, sep, cur) ==
    IF Len(s) = 0 THEN <<cur>>
    ELSE IF Head(s) = sep THEN <<cur>> \o SplitOnFrom(Tail(s), sep, << >>)
    ELSE SplitOnFrom(Tail(s), sep, Append(cur, Head(s)))
SplitOn(s, sep) == SplitOnFrom(s, sep, << >>)

\* new URLSearchParams(init).get('config'): one leading "?" is dropped, the
\* pairs are split at "&", a pair whose name is config gives its value with
\* every "+" turned into a space; the first such pair wins, and without one
\* the result is null.  A name token stands at the head of its pair.
SearchParamsGetConfig(init) ==
    LET query == IF Len(init) > 0 /\ Head(init) = "?" THEN Tail(init) ELSE init
        pairs == SplitOn(query, "&")
        named == {i \in DOMAIN pairs : Len(pairs[i]) > 0 /\ Head(pairs[i]) = "config="}
    IN  IF named = {} THEN Null
        ELSE LET i == CHOOSE i \in named : \A j \in named : i <= j
             IN  [k |-> "param", v |-> ReplaceChar(Tail(pairs[i]), "+", <<Space>>)]

\* url.includes('#')
Includes(s, token) == \E i \in DOMAIN s : s[i] = token
\* the hash parseShareUrl reads its parameters from: the url itself when it
\* starts with "#", else the text between the first "#" and the next one;
\* a leading "#" is then removed
ShareHash(url) ==
    LET hash == IF Len(url) > 0 /\ Head(url) = "#" THEN url ELSE SplitOn(url, "#")[2]
    IN  IF Len(hash) > 0 /\ Head(hash) = "#" THEN Tail(hash) ELSE hash

\* parseShareUrl without its try/catch
parseShareUrl_NoCatch(url) ==
    LET configParam == SearchParamsGetConfig(ShareHash(url))
    IN  IF ~Includes(url, "#") THEN [threw |-> FALSE, value |-> Null]
        ELSE IF configParam = Null \/ Len(configParam.v) = 0
             THEN [threw |-> FALSE, value |-> Null]
        ELSE decodeConfig(configParam.v)

\* parseShareUrl: what it returns; an exception of decodeConfig is caught
\* and gives null
parseShareUrl(url) ==
    LET configParam == SearchParamsGetConfig(ShareHash(url))
    IN  IF ~Includes(url, "#") THEN [threw |-> FALSE, value |-> Null]
        ELSE IF configParam = Null \/ Len(configParam.v) = 0
             THEN [threw |-> FALSE, value |-> Null]
        ELSE LET decoded == decodeConfig(configParam.v)
             IN  IF decoded.threw THEN [threw |-> FALSE, value |-> Null]
                 ELSE decoded

\* --------------------------------------------------------- object identities
\* n identities no live object has (the n least unused ones)
RECURSIVE FreshIds(_, _)
FreshIds(live, n) ==
    IF n = 0 THEN << >>
    ELSE LET m == CHOOSE i \in 1..(Cardinality(live) + 1) :
                     i \notin live /\ \A j \in 1..(i - 1) : j \in live
         IN  <<m>> \o FreshIds(live \cup {m}, n - 1)

\* the identities of the containers of a value
RECURSIVE ContainerIds(_)
ContainerIds(v) ==
    IF IsObj(v) THEN {v.id} \cup UNION {ContainerIds(v.f[key]) : key \in DOMAIN v.f}
    ELSE IF IsArr(v) THEN {v.id} \cup UNION {ContainerIds(v.e[i]) : i \in DOMAIN v.e}
    ELSE {}

\* ------------------------------------------------------------------ inputs
\* number of containers of a value, and of the fields that precede position n
RECURSIVE Containers(_)
RECURSIVE ContainersBefore(_, _)
Containers(v) ==
    IF IsObj(v) THEN 1 + ContainersBefore(v, Len(KeySeq) + 1)
    ELSE IF IsArr(v) THEN 1
    ELSE 0
ContainersBefore(v, n) ==
    IF n <= 1 THEN 0
    ELSE ContainersBefore(v, n - 1)
         + (IF KeySeq[n - 1] \in DOMAIN v.f THEN Containers(v.f[KeySeq[n - 1]]) ELSE 0)
KeyPos(key) == CHOOSE i \in DOMAIN KeySeq : KeySeq[i] = key

\* the value v with its containers allocated at ids[at], ids[at + 1], ...
RECURSIVE WithIds(_, _, _)
WithIds(v, ids, at) ==
    IF IsObj(v)
    THEN Obj(ids[at], [key \in DOMAIN v.f |->
                         WithIds(v.f[key], ids, at + 1 + ContainersBefore(v, KeyPos(key)))])
    ELSE IF IsArr(v) THEN Arr(ids[at], v.e)
    ELSE v

\* JSON documents (ids not yet allocated)
Primitives == {Num(n) : n \in 1..MaxNum} \cup {Str(1), Null}
Arrays == {Arr(NewId, << >>), Arr(NewId, <<Num(1)>>)}
Atoms == Primitives \cup Arrays
ObjectsOver(vals) == {Obj(NewId, f) : f \in UNION {[S -> vals] : S \in SUBSET Keys}}
FlatObjects == ObjectsOver(Atoms)
\* documents of depth two; nested objects sit under the key "a"
Documents ==
    {doc \in ObjectsOver(Atoms \cup FlatObjects) :
        \A key \in DOMAIN doc.f : key # "a" => doc.f[key] \in Atoms}
IdsFrom(base) == [i \in 1..8 |-> base + i - 1]

\* ------------------------------------------------------------------- state
VARIABLES
    pd,         \* merge/diff under study: the defaults argument
    po,         \* function under study: the user (overrides) argument, or
                \* the components given to createPointer
    pcall,      \* which function was called last
    pret,       \* its return value
    ppath,      \* store mutation under study: the dotted path argument
    pval,       \* store mutation under study: the value argument; the
                \* pointer given to parsePointer
    defaults,   \* SettingsStore.state.defaults
    user,       \* SettingsStore.state.user
    schema,     \* SettingsStore.state.schema
    docsMap,    \* SettingsStore.state.docsMap: entries [path, text]
    loading,    \* SettingsStore.state.loading
    error,      \* SettingsStore.state.error
    fetching,   \* loadDefaults is awaiting fetchDefaultSettings
    atomicPathsCache,   \* SettingsStore.atomicPathsCache
    pathsCache  \* store-utils pathsCache: entries [id, prefix, paths]

pureVars == <<pd, po, pcall, pret, ppath, pval>>
cacheVars == <<atomicPathsCache, pathsCache>>
storeVars == <<defaults, user, schema, docsMap, loading, error, fetching,
               atomicPathsCache, pathsCache>>
vars == <<pd, po, pcall, pret, ppath, pval, defaults, user, schema, docsMap,
          loading, error, fetching, atomicPathsCache, pathsCache>>

\* new SettingsStore(): state after construction
StoreInit ==
    /\ defaults = EmptyObj(1)
    /\ user = EmptyObj(2)
    /\ schema = Null
    /\ docsMap = {}
    /\ loading = FALSE
    /\ error = "null"
    /\ fetching = FALSE
    /\ atomicPathsCache = [allPaths |-> {}, hasChildrenSet |-> {},
                           lastDefaultsRef |-> Null, lastUserRef |-> Null]
    /\ pathsCache = {}

PureIdle ==
    /\ pd = Null
    /\ po = Null
    /\ pcall = "none"
    /\ pret = Undefined
    /\ ppath = << >>
    /\ pval = Undefined

\* ------------------------------------------- merge and diff as functions
PureInit ==
    /\ \E d \in Documents \cup {Null}, o \in Documents \cup {Null, Undefined} :
          /\ pd = WithIds(d, IdsFrom(1), 1)
          /\ po = WithIds(o, IdsFrom(1 + Containers(d)), 1)
    /\ pcall = "none"
    /\ pret = Undefined
    /\ ppath = << >>
    /\ pval = Undefined
    /\ StoreInit

CallMerge ==
    /\ pcall = "none"
    /\ pcall' = "merge"
    /\ pret' = merge(pd, po)
    /\ UNCHANGED <<pd, po, ppath, pval>>
    /\ UNCHANGED storeVars

CallDiff ==
    /\ pcall = "none"
    /\ pcall' = "diff"
    /\ pret' = diff(po, pd)
    /\ UNCHANGED <<pd, po, ppath, pval>>
    /\ UNCHANGED storeVars

CallSettingsDetailedDiff ==
    /\ pcall = "none"
    /\ pcall' = "settingsDetailedDiff"
    /\ pret' = settingsDetailedDiff(po, pd)
    /\ UNCHANGED <<pd, po, ppath, pval>>
    /\ UNCHANGED storeVars

\* getChangedPaths(effective, defaults) with po as its first argument; the
\* set it returns is held in a record, as every value of pret is one
CallGetChangedPaths ==
    /\ pcall = "none"
    /\ pcall' = "getChangedPaths"
    /\ pret' = [k |-> "set", paths |-> getChangedPaths(po, pd, << >>)]
    /\ UNCHANGED <<pd, po, ppath, pval>>
    /\ UNCHANGED storeVars

PureNext == CallMerge \/ CallDiff \/ CallSettingsDetailedDiff \/ CallGetChangedPaths
PureSpec == PureInit /\ [][PureNext]_vars

\* ----------------------------------------------------------- SettingsStore
\* the documentation parseJsoncWithDocs extracts with a document: every
\* field of the document carries a comment
DocsOf(doc) == {[path |-> path, text |-> "comment"] : path \in getAllPaths(doc, << >>)}
\* documents fetchDefaultSettings/parseJsoncWithDocs can deliver
DefaultDocs ==
    { Obj(NewId, [a |-> Obj(NewId, [a |-> Num(1), b |-> Str(1)]), b |-> Arr(NewId, << >>)]),
      Obj(NewId, [a |-> Obj(NewId, [b |-> Obj(NewId, [a |-> Null])]), b |-> Arr(NewId, <<Num(1)>>)]) }
\* documents an import or a share link can deliver
ImportDocs ==
    { Obj(NewId, [a |-> Obj(NewId, [a |-> Num(1), b |-> Str(1)])]),
      Obj(NewId, [a |-> Obj(NewId, [b |-> EmptyObj(NewId)]), b |-> Arr(NewId, <<Num(1)>>)]) }
\* values a field editor can deliver
SetValues == {Num(n) : n \in 1..MaxNum} \cup {Null, Arr(NewId, <<Num(1)>>), EmptyObj(NewId)}
\* dotted paths the user interface can name
PathInputs ==
    {JoinDots(ks) : ks \in {<<"a">>, <<"b">>, <<"a", "a">>, <<"a", "b">>, <<"a", "b", "a">>}}

\* dotted paths of sections
SectionInputs == {JoinDots(ks) : ks \in {<<"a">>, <<"a", "b">>}}

LiveIds == {defaults.id, user.id}
\* a new root object, the containers below it untracked
RootIds == <<FreshIds(LiveIds, 1)[1]>> \o [i \in 1..8 |-> NewId]

Init ==
    /\ StoreInit
    /\ PureIdle

\* loadDefaults up to `await fetchDefaultSettings()`; its only caller is
\* onMount of the page, so no second call starts while one is pending
LoadDefaultsCall ==
    /\ ~fetching
    /\ loading' = TRUE
    /\ error' = "null"
    /\ fetching' = TRUE
    /\ UNCHANGED <<defaults, user, schema, docsMap>>
    /\ UNCHANGED cacheVars
    /\ UNCHANGED pureVars

\* loadDefaults after the fetch resolved and the document parsed
LoadDefaultsResolve ==
    /\ fetching
    /\ \E doc \in DefaultDocs :
          /\ defaults' = WithIds(doc, RootIds, 1)
          /\ docsMap' = DocsOf(doc)
    /\ loading' = FALSE
    /\ fetching' = FALSE
    /\ UNCHANGED <<user, schema, error>>
    /\ UNCHANGED cacheVars
    /\ UNCHANGED pureVars

\* loadDefaults without its finally block when the fetch fails
LoadDefaultsReject_StaysLoading ==
    /\ fetching
    /\ error' = "message"
    /\ fetching' = FALSE
    /\ UNCHANGED <<defaults, user, schema, docsMap, loading>>
    /\ UNCHANGED cacheVars
    /\ UNCHANGED pureVars

\* loadDefaults after fetchDefaultSettings threw: every error it throws
\* carries a message that is not empty
LoadDefaultsReject ==
    /\ fetching
    /\ error' = "message"
    /\ loading' = FALSE
    /\ fetching' = FALSE
    /\ UNCHANGED <<defaults, user, schema, docsMap>>
    /\ UNCHANGED cacheVars
    /\ UNCHANGED pureVars

\* loadUserSettings that also clears the documentation
LoadUserSettings_ClearsDocs ==
    /\ \E doc \in ImportDocs :
          LET userSettings == WithIds(doc, Tail(RootIds), 1)
          IN  user' = Obj(RootIds[1], Spread(userSettings))
    /\ docsMap' = {}
    /\ UNCHANGED <<defaults, schema, loading, error, fetching>>
    /\ UNCHANGED cacheVars
    /\ UNCHANGED pureVars

LoadUserSettings ==
    /\ \E doc \in ImportDocs :
          LET userSettings == WithIds(doc, Tail(RootIds), 1)
          IN  user' = Obj(RootIds[1], Spread(userSettings))
    /\ UNCHANGED <<defaults, schema, docsMap, loading, error, fetching>>
    /\ UNCHANGED cacheVars
    /\ UNCHANGED pureVars

UpdateUserSetting(path, raw) ==
    /\ LET value == WithIds(raw, Tail(RootIds), 1)
       IN  user' = cloneWithStructuralSharing(user, path, value, "set", RootIds)
    /\ UNCHANGED <<defaults, schema, docsMap, loading, error, fetching>>
    /\ UNCHANGED cacheVars
    /\ UNCHANGED pureVars

ResetUserSetting(path) ==
    /\ user' = cloneWithStructuralSharing(user, path, Undefined, "delete", RootIds)
    /\ UNCHANGED <<defaults, schema, docsMap, loading, error, fetching>>
    /\ UNCHANGED cacheVars
    /\ UNCHANGED pureVars

ResetSection(sectionPath) ==
    /\ user' = cloneWithStructuralSharing(user, sectionPath, Undefined, "delete", RootIds)
    /\ UNCHANGED <<defaults, schema, docsMap, loading, error, fetching>>
    /\ UNCHANGED cacheVars
    /\ UNCHANGED pureVars

ResetAllUserSettings ==
    /\ user' = EmptyObj(RootIds[1])
    /\ UNCHANGED <<defaults, schema, docsMap, loading, error, fetching>>
    /\ UNCHANGED cacheVars
    /\ UNCHANGED pureVars

Next ==
    \/ LoadDefaultsCall
    \/ LoadDefaultsResolve
    \/ LoadDefaultsReject
    \/ LoadUserSettings
    \/ \E path \in PathInputs, raw \in SetValues : UpdateUserSetting(path, raw)
    \/ \E path \in PathInputs : ResetUserSetting(path)
    \/ \E sectionPath \in SectionInputs : ResetSection(sectionPath)
    \/ ResetAllUserSettings

Spec == Init /\ [][Next]_vars

\* the promise of fetchDefaultSettings settles: a pending loadDefaults goes on
FairSpec == Spec /\ WF_vars(LoadDefaultsResolve \/ LoadDefaultsReject)

\* the store under every public method: loadSchema has no caller in the
\* application, so Spec leaves it out
Schemas == {[k |-> "schema", title |-> "settings"]}
LoadSchema ==
    /\ \E s \in Schemas : schema' = s
    /\ UNCHANGED <<defaults, user, docsMap, loading, error, fetching>>
    /\ UNCHANGED cacheVars
    /\ UNCHANGED pureVars

ApiNext == Next \/ LoadSchema
ApiSpec == Init /\ [][ApiNext]_vars

\* derived views of the store
effective == merge(defaults, user)
delta == diff(user, defaults)
changedPaths == computeChangedPaths(defaults, user)
customPaths == computeCustomPaths(defaults, user)

\* ------------------------- store mutations as functions of the overrides
\* The mutation entry points of the store applied once to an overrides tree
\* po every container of which has a tracked identity; pret is the tree the
\* entry point installs as state.user.
\* overrides trees of depth three
DeepDocuments ==
    UNION { { Obj(NewId, [a |-> Obj(NewId, [b |-> inner])]),
              Obj(NewId, [a |-> Obj(NewId, [a |-> Arr(NewId, <<Num(1)>>), b |-> inner])]),
              Obj(NewId, [a |-> Obj(NewId, [b |-> inner]), b |-> Arr(NewId, <<Num(1)>>)]) }
          : inner \in FlatObjects }
OverrideDocs == Documents \cup DeepDocuments

\* identities no container of o or v has, for the objects a call allocates
CallIds(o, v) == IdsFrom(1 + Containers(o) + Containers(v))
\* identities for a second call: the first one allocates at most three objects
LaterIds(o, v) == IdsFrom(4 + Containers(o) + Containers(v))

MutationInit ==
    /\ pd = Null
    /\ \E o \in OverrideDocs : po = WithIds(o, IdsFrom(1), 1)
    /\ pcall = "none"
    /\ pret = Undefined
    /\ ppath = << >>
    /\ pval = Undefined
    /\ StoreInit

CallUpdateUserSetting(path, raw) ==
    /\ pcall = "none"
    /\ pcall' = "set"
    /\ ppath' = path
    /\ pval' = WithIds(raw, IdsFrom(1 + Containers(po)), 1)
    /\ pret' = cloneWithStructuralSharing(po, path, pval', "set", CallIds(po, raw))
    /\ UNCHANGED <<pd, po>>
    /\ UNCHANGED storeVars

CallResetUserSetting(path) ==
    /\ pcall = "none"
    /\ pcall' = "delete"
    /\ ppath' = path
    /\ pret' = cloneWithStructuralSharing(po, path, Undefined, "delete", CallIds(po, Undefined))
    /\ UNCHANGED <<pd, po, pval>>
    /\ UNCHANGED storeVars

CallResetSection(sectionPath) ==
    /\ pcall = "none"
    /\ pcall' = "section"
    /\ ppath' = sectionPath
    /\ pret' = cloneWithStructuralSharing(po, sectionPath, Undefined, "delete",
                                          CallIds(po, Undefined))
    /\ UNCHANGED <<pd, po, pval>>
    /\ UNCHANGED storeVars

CallResetAllUserSettings ==
    /\ pcall = "none"
    /\ pcall' = "clear"
    /\ pret' = EmptyObj(CallIds(po, Undefined)[1])
    /\ UNCHANGED <<pd, po, ppath, pval>>
    /\ UNCHANGED storeVars

\* loadUserSettings(po): po is the tree of the caller
CallLoadUserSettings ==
    /\ pcall = "none"
    /\ pcall' = "load"
    /\ pret' = Obj(CallIds(po, Undefined)[1], Spread(po))
    /\ UNCHANGED <<pd, po, ppath, pval>>
    /\ UNCHANGED storeVars

\* resetUserSetting(path) right after updateUserSetting(path, value)
ThenResetUserSetting ==
    /\ pcall = "set"
    /\ pcall' = "set-delete"
    /\ pret' = cloneWithStructuralSharing(pret, ppath, Undefined, "delete", LaterIds(po, pval))
    /\ UNCHANGED <<pd, po, ppath, pval>>
    /\ UNCHANGED storeVars

MutationNext ==
    \/ \E path \in PathInputs, raw \in SetValues : CallUpdateUserSetting(path, raw)
    \/ \E path \in PathInputs : CallResetUserSetting(path)
    \/ \E sectionPath \in SectionInputs : CallResetSection(sectionPath)
    \/ CallResetAllUserSettings
    \/ CallLoadUserSettings
    \/ ThenResetUserSetting

MutationSpec == MutationInit /\ [][MutationNext]_vars

\* ------------------------------------- the store with its caches of paths
\* The store after loadDefaults and loadUserSettings, every container with a
\* tracked identity, under one mutation, possibly followed by a reset, with
\* reads of the cached paths in between.  pcall names the last mutation.
CacheDocs ==
    ImportDocs \cup
    { EmptyObj(NewId),
      Obj(NewId, [a |-> Obj(NewId, [b |-> Obj(NewId, [a |-> Num(1)])]),
                  b |-> Arr(NewId, <<Num(1)>>)]) }

\* identities in use: objects reachable from the store and keys of pathsCache
UsedIds ==
    ContainerIds(defaults) \cup ContainerIds(user)
    \cup ContainerIds(atomicPathsCache.lastDefaultsRef)
    \cup ContainerIds(atomicPathsCache.lastUserRef)
    \cup {entry.id : entry \in pathsCache}
MaxId(ids) == CHOOSE m \in ids \cup {NewId} : \A i \in ids : i <= m
\* identities for the objects the next call allocates
TrackedIds == IdsFrom(1 + MaxId(UsedIds))

CacheInit ==
    /\ \E d \in DefaultDocs \cup {EmptyObj(NewId)}, o \in CacheDocs :
          /\ defaults = WithIds(d, IdsFrom(1), 1)
          /\ user = WithIds(o, IdsFrom(1 + Containers(d)), 1)
          /\ docsMap = DocsOf(d)
    /\ schema = Null
    /\ loading = FALSE
    /\ error = "null"
    /\ fetching = FALSE
    /\ atomicPathsCache = [allPaths |-> {}, hasChildrenSet |-> {},
                           lastDefaultsRef |-> Null, lastUserRef |-> Null]
    /\ pathsCache = {}
    /\ PureIdle

\* get allAtomicPaths / get hasChildrenSet: both run _updateAtomicPathsCache
ReadAtomicPaths ==
    /\ LET updated == updateAtomicPathsCache(defaults, user, atomicPathsCache, pathsCache)
       IN  /\ atomicPathsCache' = updated.apc
           /\ pathsCache' = updated.cache
    /\ UNCHANGED <<defaults, user, schema, docsMap, loading, error, fetching>>
    /\ UNCHANGED pureVars

\* the derived views: _computeCustomPaths and _computeChangedPaths call
\* getAllPaths(this.state.user)
ReadDerived ==
    /\ pathsCache' = getAllPathsMemo(user, << >>, pathsCache).cache
    /\ UNCHANGED <<defaults, user, schema, docsMap, loading, error, fetching, atomicPathsCache>>
    /\ UNCHANGED <<pd, po, pcall, pret, ppath, pval>>

TrackedLoadDefaults ==
    /\ pcall = "none"
    /\ pcall' = "loadDefaults"
    /\ \E doc \in DefaultDocs :
          /\ defaults' = WithIds(doc, TrackedIds, 1)
          /\ docsMap' = DocsOf(doc)
    /\ UNCHANGED <<user, schema, loading, error, fetching>>
    /\ UNCHANGED cacheVars
    /\ UNCHANGED <<pd, po, pret, ppath, pval>>

TrackedLoadUserSettings ==
    /\ pcall = "none"
    /\ pcall' = "load"
    /\ \E doc \in ImportDocs :
          LET userSettings == WithIds(doc, Tail(TrackedIds), 1)
          IN  user' = Obj(TrackedIds[1], Spread(userSettings))
    /\ UNCHANGED <<defaults, schema, docsMap, loading, error, fetching>>
    /\ UNCHANGED cacheVars
    /\ UNCHANGED <<pd, po, pret, ppath, pval>>

TrackedUpdateUserSetting(path, raw) ==
    /\ pcall = "none"
    /\ pcall' = "set"
    /\ LET value == WithIds(raw, TrackedIds, 1)
       IN  user' = cloneWithStructuralSharing(user, path, value, "set", Tail(TrackedIds))
    /\ UNCHANGED <<defaults, schema, docsMap, loading, error, fetching>>
    /\ UNCHANGED cacheVars
    /\ UNCHANGED <<pd, po, pret, ppath, pval>>

\* resetUserSetting as the first mutation or after another one
TrackedResetUserSetting(path) ==
    /\ pcall # "delete-after"
    /\ pcall' = (IF pcall = "none" THEN "delete" ELSE "delete-after")
    /\ user' = cloneWithStructuralSharing(user, path, Undefined, "delete", TrackedIds)
    /\ UNCHANGED <<defaults, schema, docsMap, loading, error, fetching>>
    /\ UNCHANGED cacheVars
    /\ UNCHANGED <<pd, po, pret, ppath, pval>>

TrackedResetSection(sectionPath) ==
    /\ pcall = "none"
    /\ pcall' = "section"
    /\ user' = cloneWithStructuralSharing(user, sectionPath, Undefined, "delete", TrackedIds)
    /\ UNCHANGED <<defaults, schema, docsMap, loading, error, fetching>>
    /\ UNCHANGED cacheVars
    /\ UNCHANGED <<pd, po, pret, ppath, pval>>

TrackedResetAllUserSettings ==
    /\ pcall = "none"
    /\ pcall' = "clear"
    /\ user' = EmptyObj(TrackedIds[1])
    /\ UNCHANGED <<defaults, schema, docsMap, loading, error, fetching>>
    /\ UNCHANGED cacheVars
    /\ UNCHANGED <<pd, po, pret, ppath, pval>>

CacheNext ==
    \/ ReadAtomicPaths
    \/ ReadDerived
    \/ TrackedLoadDefaults
    \/ TrackedLoadUserSettings
    \/ \E path \in PathInputs, raw \in SetValues : TrackedUpdateUserSetting(path, raw)
    \/ \E path \in PathInputs : TrackedResetUserSetting(path)
    \/ \E sectionPath \in SectionInputs : TrackedResetSection(sectionPath)
    \/ TrackedResetAllUserSettings

CacheSpec == CacheInit /\ [][CacheNext]_vars

\* ------------------------------------------- one mutation of a loaded store
\* The store after loadDefaults and loadUserSettings under one mutation;
\* pcall, ppath and pval hold the call, po the overrides before it.
LoadedInit ==
    /\ \E d \in DefaultDocs \cup {EmptyObj(NewId)}, o \in OverrideDocs :
          /\ defaults = Obj(1, d.f)
          /\ user = Obj(2, o.f)
          /\ docsMap = DocsOf(d)
    /\ schema = Null
    /\ loading = FALSE
    /\ error = "null"
    /\ fetching = FALSE
    /\ atomicPathsCache = [allPaths |-> {}, hasChildrenSet |-> {},
                           lastDefaultsRef |-> Null, lastUserRef |-> Null]
    /\ pathsCache = {}
    /\ pd = Null
    /\ po = user
    /\ pcall = "none"
    /\ pret = Undefined
    /\ ppath = << >>
    /\ pval = Undefined

LoadedUpdateUserSetting(path, raw) ==
    /\ pcall = "none"
    /\ pcall' = "set"
    /\ ppath' = path
    /\ pval' = WithIds(raw, Tail(RootIds), 1)
    /\ user' = cloneWithStructuralSharing(user, path, pval', "set", RootIds)
    /\ UNCHANGED <<defaults, schema, docsMap, loading, error, fetching>>
    /\ UNCHANGED cacheVars
    /\ UNCHANGED <<pd, po, pret>>

LoadedResetUserSetting(path) ==
    /\ pcall = "none"
    /\ pcall' = "delete"
    /\ ppath' = path
    /\ user' = cloneWithStructuralSharing(user, path, Undefined, "delete", RootIds)
    /\ UNCHANGED <<defaults, schema, docsMap, loading, error, fetching>>
    /\ UNCHANGED cacheVars
    /\ UNCHANGED <<pd, po, pret, pval>>

LoadedResetSection(sectionPath) ==
    /\ pcall = "none"
    /\ pcall' = "section"
    /\ ppath' = sectionPath
    /\ user' = cloneWithStructuralSharing(user, sectionPath, Undefined, "delete", RootIds)
    /\ UNCHANGED <<defaults, schema, docsMap, loading, error, fetching>>
    /\ UNCHANGED cacheVars
    /\ UNCHANGED <<pd, po, pret, pval>>

LoadedNext ==
    \/ \E path \in PathInputs, raw \in SetValues : LoadedUpdateUserSetting(path, raw)
    \/ \E path \in PathInputs : LoadedResetUserSetting(path)
    \/ \E sectionPath \in SectionInputs : LoadedResetSection(sectionPath)

LoadedSpec == LoadedInit /\ [][LoadedNext]_vars

\* ------------------------------------------------ JSON Pointers as functions
Strings == UNION {[1..n -> Chars] : n \in 0..MaxLen}
ComponentSeqs == UNION {[1..n -> Strings] : n \in 0..MaxComponents}

PointerInit ==
    /\ pd = Null
    /\ po \in ComponentSeqs
    /\ pcall = "none"
    /\ pret = Undefined
    /\ ppath = << >>
    /\ pval = Undefined
    /\ StoreInit

CallCreatePointer ==
    /\ pcall = "none"
    /\ pcall' = "createPointer"
    /\ pret' = createPointer(po)
    /\ UNCHANGED <<pd, po, ppath, pval>>
    /\ UNCHANGED storeVars

\* parsePointer on the pointer createPointer returned
CallParsePointer ==
    /\ pcall = "createPointer"
    /\ pcall' = "parsePointer"
    /\ pval' = pret
    /\ pret' = parsePointer(pret)
    /\ UNCHANGED <<pd, po, ppath>>
    /\ UNCHANGED storeVars

PointerNext == CallCreatePointer \/ CallParsePointer
PointerSpec == PointerInit /\ [][PointerNext]_vars

\* ------------------------------------------------------------- share links
\* config parameters a link can carry
Encodings == UNION {[1..n -> EncChars] : n \in 0..MaxEncoded}
\* a link with its parameters in the fragment, as generateShareUrl builds
\* it, and the page's location.search, as updateUrl writes it
LinksWith(encoded) ==
    { <<"#", "config=">> \o encoded,
      <<"u", "#", "config=">> \o encoded,
      <<"u", "#", "x=", "0", "&", "config=">> \o encoded,
      <<"u", "?", "config=">> \o encoded,
      <<"?", "config=">> \o encoded,
      <<"?", "x=", "0", "&", "config=">> \o encoded }

ShareInit ==
    /\ pval \in Encodings
    /\ ppath \in LinksWith(pval) \cup {<<"u", "#", "x=", "0">>, <<"?", "x=", "0">>, << >>}
    /\ defaults \in {Obj(1, d.f) : d \in DefaultDocs}
    /\ schema = Null
    /\ docsMap = DocsOf(defaults)
    /\ user \in {Obj(2, u.f) : u \in ImportDocs}
    /\ pd = defaults
    /\ po = user
    /\ pcall = "none"
    /\ pret = Undefined
    /\ loading = FALSE
    /\ error = "null"
    /\ fetching = FALSE
    /\ atomicPathsCache = [allPaths |-> {}, hasChildrenSet |-> {},
                           lastDefaultsRef |-> Null, lastUserRef |-> Null]
    /\ pathsCache = {}

CallParseShareUrl ==
    /\ pcall = "none"
    /\ pcall' = "parseShareUrl"
    /\ pret' = parseShareUrl(ppath)
    /\ UNCHANGED <<pd, po, ppath, pval>>
    /\ UNCHANGED storeVars

\* the page's loadFromUrl with ppath as window.location.search; pret holds
\* what it returned, whether an exception left it, and the page's flags
LoadFromUrl ==
    /\ pcall = "none"
    /\ pcall' = "loadFromUrl"
    /\ LET configParam == SearchParamsGetConfig(ppath)
           decoded == decodeConfig(configParam.v)
           Done(returned, shared) ==
               [threw |-> FALSE, value |-> returned,
                isLoadingFromUrl |-> FALSE, hasSharedConfig |-> shared]
       IN  IF configParam = Null \/ Len(configParam.v) = 0
           THEN pret' = Done(FALSE, FALSE) /\ user' = user
           ELSE IF decoded.threw
           THEN pret' = Done(FALSE, FALSE) /\ user' = user
           ELSE /\ pret' = Done(TRUE, TRUE)
                /\ user' = Obj(RootIds[1], Spread(decoded.value))
    /\ UNCHANGED <<defaults, schema, docsMap, loading, error, fetching>>
    /\ UNCHANGED cacheVars
    /\ UNCHANGED <<pd, po, ppath, pval>>

ShareNext == CallParseShareUrl \/ LoadFromUrl
ShareSpec == ShareInit /\ [][ShareNext]_vars

\* ------------------------------------------------- vocabulary of the claims
\* structural equality: primitives by value, arrays element-wise, objects by
\* key set; identities are ignored
RECURSIVE SameValue(_, _)
SameValue(x, y) ==
    IF x.k # y.k THEN FALSE
    ELSE IF x.k = "obj"
         THEN /\ DOMAIN x.f = DOMAIN y.f
              /\ \A key \in DOMAIN x.f : SameValue(x.f[key], y.f[key])
    ELSE IF x.k = "arr"
         THEN /\ Len(x.e) = Len(y.e)
              /\ \A i \in DOMAIN x.e : SameValue(x.e[i], y.e[i])
    ELSE x = y

IsEmptyObj(v) == IsObj(v) /\ DOMAIN v.f = {}
IsNonEmptyObj(v) == IsObj(v) /\ DOMAIN v.f # {}

\* leaf paths (sequences of property names) of a tree: paths whose value is
\* a primitive, null, an array or an empty object
RECURSIVE LeafPaths(_)
LeafPaths(t) ==
    UNION { IF IsNonEmptyObj(t.f[key])
            THEN {<<key>> \o q : q \in LeafPaths(t.f[key])}
            ELSE {<<key>>}
          : key \in DOMAIN t.f }

\* get(tree, path): undefined when a component is absent or an intermediate
\* value is not a container
RECURSIVE ValueAt(_, _)
ValueAt(t, ks) ==
    IF Len(ks) = 0 THEN t
    ELSE IF IsContainer(t) /\ Head(ks) \in ObjectKeys(t)
         THEN ValueAt(Prop(t, Head(ks)), Tail(ks))
    ELSE Undefined

ProperPrefixes(ks) == {SubSeq(ks, 1, n) : n \in 1..(Len(ks) - 1)}

Merged == pcall = "merge" /\ IsObj(pd) /\ IsObj(po)
Diffed == pcall = "diff" /\ IsObj(pd) /\ IsObj(po)

C2_RoundTrip ==
    Diffed => LET reimported == merge(pd, pret)
                  direct == merge(pd, po)
              IN  \A p \in LeafPaths(reimported) \cup LeafPaths(direct) :
                     SameValue(ValueAt(reimported, p), ValueAt(direct, p))

C2_Witness ==
    /\ Diffed
    /\ DOMAIN pret.f # {}
    /\ DOMAIN pret.f # DOMAIN po.f
    /\ \E key \in DOMAIN pret.f : IsNonEmptyObj(pret.f[key]) /\ IsNonEmptyObj(Prop(pd, key))

\* C3 (as claimed): at every leaf path of o, merge(d, o) has o's value
C3_OverrideWins ==
    Merged => \A p \in LeafPaths(po) : SameValue(ValueAt(pret, p), ValueAt(po, p))

\* C3 (amended): at every leaf path p of o, merge(d, o) has o's value, except
\* that where o holds an empty object and d a plain object, it has d's value
C3_OverrideWinsButEmpty ==
    Merged => \A p \in LeafPaths(po) :
                 IF IsEmptyObj(ValueAt(po, p)) /\ IsObj(ValueAt(pd, p))
                 THEN SameValue(ValueAt(pret, p), ValueAt(pd, p))
                 ELSE SameValue(ValueAt(pret, p), ValueAt(po, p))

C3_Witness ==
    /\ Merged
    /\ \E p \in LeafPaths(po) :
          /\ Len(p) = 2
          /\ ~IsUndef(ValueAt(pd, p))
          /\ ~SameValue(ValueAt(pd, p), ValueAt(po, p))
          /\ SameValue(ValueAt(pret, p), ValueAt(po, p))

\* C4 (as claimed): at every leaf path of d that has no value in o,
\* merge(d, o) has d's value
C4_Fallback ==
    Merged => \A p \in LeafPaths(pd) :
                 IsUndef(ValueAt(po, p)) => SameValue(ValueAt(pret, p), ValueAt(pd, p))

\* an ancestor of p holds a value in o that is not a plain object
OverriddenAbove(o, p) ==
    \E q \in ProperPrefixes(p) : ~IsUndef(ValueAt(o, q)) /\ ~IsObj(ValueAt(o, q))

\* C4 (amended): at every leaf path of d that has no value in o and no
\* ancestor of which holds a non-object value in o, merge(d, o) has d's value
C4_FallbackUnlessReplaced ==
    Merged => \A p \in LeafPaths(pd) :
                 (IsUndef(ValueAt(po, p)) /\ ~OverriddenAbove(po, p))
                    => SameValue(ValueAt(pret, p), ValueAt(pd, p))

C4_Witness ==
    /\ Merged
    /\ DOMAIN po.f # {}
    /\ \E p \in LeafPaths(pd) :
          /\ Len(p) = 2
          /\ IsUndef(ValueAt(po, p))
          /\ IsNonEmptyObj(ValueAt(po, SubSeq(p, 1, 1)))
          /\ SameValue(ValueAt(pret, p), ValueAt(pd, p))

\* C5: merge(d, {}) and merge(d, null/undefined) return d itself
C5_MergeIdentity ==
    (pcall = "merge" /\ IsObj(pd) /\ (Falsy(po) \/ IsEmptyObj(po)))
        => (pret.id = pd.id /\ pret = pd)

C5_Witness ==
    /\ pcall = "merge"
    /\ IsNonEmptyObj(pd)
    /\ IsEmptyObj(po)
    /\ pret.id = pd.id

\* ------------------------------------------------------- claims on the store
Dotted(ks) == JoinDots(ks)

\* C6: changedPaths is exactly the set of leaf paths of overrides at which
\* the override value is not structurally equal to the default value
C6_ChangedPathsExact ==
    changedPaths = {Dotted(p) : p \in {q \in LeafPaths(user) :
                        ~SameValue(ValueAt(user, q), ValueAt(defaults, q))}}

C8_CustomSubsetChanged == customPaths \subseteq changedPaths

C8_Witness ==
    /\ DOMAIN defaults.f # {}
    /\ customPaths # {}
    /\ changedPaths # customPaths
    /\ \E path \in customPaths : IsNull(getValueByPath(user, path))

\* a proper prefix of the dotted path addresses a value of o that is neither
\* a container nor null nor absent
StructuralConflict(o, path) ==
    \E q \in ProperPrefixes(SplitDots(path)) : ValueAt(o, q).k \in {"num", "str"}

\* C9: updateUserSetting with a path one of whose proper prefixes addresses
\* a non-container, non-null value leaves the overrides structurally unchanged
C9_ConflictLeavesUnchanged ==
    [][\A path \in PathInputs, raw \in SetValues :
          (UpdateUserSetting(path, raw) /\ StructuralConflict(user, path))
              => SameValue(user', user)]_vars

\* C10: resetUserSetting and resetSection at a path that does not exist in
\* overrides leave the overrides structurally unchanged
C10_DeleteMissingNoOp ==
    [][/\ \A path \in PathInputs :
            (ResetUserSetting(path) /\ IsUndef(ValueAt(user, SplitDots(path))))
                => SameValue(user', user)
       /\ \A sectionPath \in SectionInputs :
            (ResetSection(sectionPath) /\ IsUndef(ValueAt(user, SplitDots(sectionPath))))
                => SameValue(user', user)]_vars

\* ------------------------------------- claims on the mutations of the store
IsPrefix(a, q) == Len(a) <= Len(q) /\ SubSeq(q, 1, Len(a)) = a
\* the leaf paths of t below (or at) the path a
LeavesUnder(t, a) == {q \in LeafPaths(t) : IsPrefix(a, q)}

\* C11: after resetUserSetting removed an existing path p, every ancestor of
\* p all of whose leaves were at or below p is absent from the result, and
\* every other ancestor is still an object holding its other leaves
C11_PrunesEmptyAncestors ==
    LET p == SplitDots(ppath)
    IN  (pcall = "delete" /\ ~IsUndef(ValueAt(po, p)))
           => \A a \in ProperPrefixes(p) :
                 IF LeavesUnder(po, a) \subseteq LeavesUnder(po, p)
                 THEN IsUndef(ValueAt(pret, a))
                 ELSE /\ IsObj(ValueAt(pret, a))
                      /\ \A q \in LeavesUnder(po, a) \ LeavesUnder(po, p) :
                            SameValue(ValueAt(pret, q), ValueAt(po, q))

C11_Witness ==
    LET p == SplitDots(ppath)
    IN  /\ pcall = "delete"
        /\ Len(p) = 3
        /\ ~IsUndef(ValueAt(po, p))
        /\ IsUndef(ValueAt(pret, <<"a", "b">>))
        /\ IsUndef(ValueAt(pret, <<"a">>))
        /\ ~IsUndef(ValueAt(pret, <<"b">>))

\* every path (property names and array indices) at which t has a value
RECURSIVE AllPaths(_)
AllPaths(t) ==
    UNION { {<<key>>} \cup {<<key>> \o q : q \in AllPaths(Prop(t, key))}
          : key \in ObjectKeys(t) }
Unrelated(q, p) == ~IsPrefix(q, p) /\ ~IsPrefix(p, q)

\* C12: after updateUserSetting(p, v) followed by resetUserSetting(p), the
\* path p is absent, and every path that is neither p, an ancestor of p nor
\* a descendant of p has the value it had before the two calls
C12_SetDeleteInverse ==
    LET p == SplitDots(ppath)
    IN  pcall = "set-delete"
           => /\ IsUndef(ValueAt(pret, p))
              /\ \A q \in AllPaths(po) \cup AllPaths(pret) :
                    Unrelated(q, p) => SameValue(ValueAt(pret, q), ValueAt(po, q))

C12_Witness ==
    LET p == SplitDots(ppath)
    IN  /\ pcall = "set-delete"
        /\ Len(p) = 3
        /\ ~IsUndef(ValueAt(po, p))
        /\ \E q \in AllPaths(pret) : Len(q) = 3 /\ Unrelated(q, p)
        /\ \E q \in AllPaths(pret) : Len(q) = 2 /\ Unrelated(q, p)

\* C13: after updateUserSetting(p, v) every container of the result at a
\* path that is neither p, an ancestor of p nor a descendant of p is the very
\* object the old tree holds at that path, the value at p is v itself, and
\* the root and the containers at the ancestors of p are new objects
C13_StructuralSharing ==
    LET p == SplitDots(ppath)
    IN  pcall = "set"
           => /\ \A q \in AllPaths(pret) :
                    (Unrelated(q, p) /\ IsContainer(ValueAt(pret, q)))
                       => StrictEq(ValueAt(pret, q), ValueAt(po, q))
              /\ ValueAt(pret, p) = pval
              /\ \A a \in ProperPrefixes(p) \cup {<< >>} :
                    /\ IsObj(ValueAt(pret, a))
                    /\ ValueAt(pret, a).id \notin ContainerIds(po) \cup ContainerIds(pval) \cup {NewId}

C13_Witness ==
    LET p == SplitDots(ppath)
    IN  /\ pcall = "set"
        /\ Len(p) = 3
        /\ IsObj(ValueAt(po, SubSeq(p, 1, 2)))
        /\ \E q \in AllPaths(pret) :
              Len(q) = 3 /\ Unrelated(q, p) /\ IsContainer(ValueAt(pret, q))
        /\ \E q \in AllPaths(pret) :
              Len(q) = 2 /\ Unrelated(q, p) /\ IsContainer(ValueAt(pret, q))

\* the containers of a value, the value itself included
RECURSIVE SubContainers(_)
SubContainers(v) ==
    IF IsObj(v) THEN {v} \cup UNION {SubContainers(v.f[key]) : key \in DOMAIN v.f}
    ELSE IF IsArr(v) THEN {v} \cup UNION {SubContainers(v.e[i]) : i \in DOMAIN v.e}
    ELSE {}

\* C14: the tree a store mutation installs has a root object that is not an
\* object of the tree it started from (the previous overrides, or the tree
\* passed to loadUserSettings), also when the contents are the same, and
\* every object of the old tree that the new tree still holds has the
\* contents it had; this also holds after a second mutation
C14_CopyOnWrite ==
    pcall # "none"
       => /\ IsObj(pret)
          /\ pret.id \notin ContainerIds(po) \cup {NewId}
          /\ \A c \in SubContainers(pret) :
                c.id \in ContainerIds(po) => c \in SubContainers(po)

C14_Witness ==
    /\ pcall = "delete"
    /\ IsUndef(ValueAt(po, SplitDots(ppath)))
    /\ Len(SplitDots(ppath)) = 3
    /\ SameValue(pret, po)
    /\ pret.id # po.id
    /\ ContainerIds(pret) \cap ContainerIds(po) # {}

\* ---------------------------------------------- claims on the caches of paths
LeavesOfBoth == LeafPaths(defaults) \cup LeafPaths(user)

\* C15: in every reachable state the next read of allAtomicPaths returns the
\* leaf paths of the current defaults and overrides, the next read of
\* hasChildrenSet the proper ancestor paths of these, and getAllPaths on the
\* current defaults or overrides the leaf paths of that tree
C15_CacheCoherent ==
    LET next == updateAtomicPathsCache(defaults, user, atomicPathsCache, pathsCache).apc
    IN  /\ next.allPaths = {Dotted(p) : p \in LeavesOfBoth}
        /\ next.hasChildrenSet = {Dotted(a) : a \in UNION {ProperPrefixes(p) : p \in LeavesOfBoth}}
        /\ getAllPathsMemo(defaults, << >>, pathsCache).paths
              = {Dotted(p) : p \in LeafPaths(defaults)}
        /\ getAllPathsMemo(user, << >>, pathsCache).paths
              = {Dotted(p) : p \in LeafPaths(user)}

\* a read after a second mutation, with entries of earlier trees and of a
\* shared nested object in pathsCache
C15_Witness ==
    /\ pcall = "delete-after"
    /\ StrictEq(atomicPathsCache.lastUserRef, user)
    /\ atomicPathsCache.allPaths # {}
    /\ \E entry \in pathsCache :
          entry.id \notin ContainerIds(user) \cup ContainerIds(defaults)
    /\ \E entry \in pathsCache :
          entry.id \in ContainerIds(user) \ {user.id} /\ entry.paths # {}

\* ------------------------------------------------- further claims on diff
\* C16: every leaf path of o whose value is absent from d or structurally
\* unequal to the value of d at that path is in diff(o, d) with o's value
C16_DeltaComplete ==
    (pcall = "diff" /\ IsObj(po))
       => \A p \in LeafPaths(po) :
             (IsUndef(ValueAt(pd, p)) \/ ~SameValue(ValueAt(po, p), ValueAt(pd, p)))
                => SameValue(ValueAt(pret, p), ValueAt(po, p))

C16_Witness ==
    /\ Diffed
    /\ \E p \in LeafPaths(po) :
          /\ Len(p) = 2
          /\ IsUndef(ValueAt(pd, p))
          /\ IsObj(ValueAt(pd, SubSeq(p, 1, 1)))
          /\ SameValue(ValueAt(pret, p), ValueAt(po, p))
    /\ \E p \in LeafPaths(po) :
          /\ ~IsUndef(ValueAt(pd, p))
          /\ ~SameValue(ValueAt(po, p), ValueAt(pd, p))
    /\ DOMAIN pret.f # DOMAIN po.f

Range(seq) == {seq[i] : i \in DOMAIN seq}

\* C17: diff(o, d) holds no path that o does not hold, diff({}, d) is
\* empty, and settingsDetailedDiff(o, d) reports no removed path and reports
\* as added or modified only paths of o
C17_Additive ==
    /\ pcall = "diff"
          => /\ AllPaths(pret) \subseteq AllPaths(po)
             /\ (Falsy(po) \/ IsEmptyObj(po)) => IsEmptyObj(pret)
    /\ pcall = "settingsDetailedDiff"
          => /\ pret.removed = << >>
             /\ \A path \in Range(pret.added) \cup Range(pret.modified) :
                   SplitDots(path) \in AllPaths(po)
             /\ AllPaths(pret.delta) \subseteq AllPaths(po)

C17_Witness ==
    /\ pcall = "settingsDetailedDiff"
    /\ IsObj(pd) /\ IsObj(po)
    /\ \E p \in LeafPaths(pd) : Len(p) = 2 /\ IsUndef(ValueAt(po, p))
    /\ DOMAIN pd.f \ DOMAIN po.f # {}
    /\ Len(pret.added) > 0
    /\ Len(pret.modified) > 0
    /\ pret.removed = << >>

\* ------------------------------------------------ further claims on merge
\* C18: when o is not empty, no container of merge(d, o) is a container of
\* d or of o
C18_AliasFree ==
    (pcall = "merge" /\ IsNonEmptyObj(po))
       => ContainerIds(pret) \cap (ContainerIds(pd) \cup ContainerIds(po)) = {}

\* the paths at which both trees have a value and every ancestor of which
\* holds a plain object in both (the keys merge visits with two values)
PathsInBoth(d, o) ==
    {p \in AllPaths(d) \cap AllPaths(o) :
        \A a \in ProperPrefixes(p) : IsObj(ValueAt(d, a)) /\ IsObj(ValueAt(o, a))}

\* C19: at a path present in both trees where the value of d or the value of
\* o is not a plain object, merge(d, o) has o's whole value
C19_WholesaleOverride ==
    Merged => \A p \in PathsInBoth(pd, po) :
                 ~(IsObj(ValueAt(pd, p)) /\ IsObj(ValueAt(po, p)))
                    => SameValue(ValueAt(pret, p), ValueAt(po, p))

C19_Witness ==
    /\ Merged
    /\ \E key \in DOMAIN pd.f \cap DOMAIN po.f :
          /\ IsArr(pd.f[key]) /\ IsArr(po.f[key])
          /\ Len(pd.f[key].e) > Len(po.f[key].e)
          /\ SameValue(pret.f[key], po.f[key])
    /\ \E p \in PathsInBoth(pd, po) :
          /\ Len(p) = 2
          /\ IsNull(ValueAt(po, p))
          /\ ~IsNull(ValueAt(pd, p))
          /\ IsNull(ValueAt(pret, p))

\* ------------------------------------------------- claims on JSON Pointers
\* C20: parsePointer(createPointer(cs)) is cs for every sequence cs of
\* components, and createPointer gives the empty pointer for the empty
\* sequence and for no other
C20_PointerRoundTrip ==
    /\ pcall = "parsePointer" => pret = po
    /\ pcall = "createPointer" => ((Len(po) = 0) <=> (Len(pret) = 0))

C20_Witness ==
    /\ pcall = "parsePointer"
    /\ Len(po) = 2
    /\ po[1] = <<Tilde, "1">>
    /\ po[2] \in {<< >>, <<Slash>>}
    /\ pret = po
    /\ Len(pval) > 4

\* --------------------------------- further claims on the store's mutations
\* C23: when updateUserSetting or resetUserSetting walks its path through an
\* existing array (or object) of the overrides, the result holds at that
\* place a container of the same type, an array with its elements unchanged
C23_ContainerTypesKept ==
    LET p == SplitDots(ppath)
    IN  pcall \in {"set", "delete"}
           => \A a \in ProperPrefixes(p) :
                 /\ IsArr(ValueAt(po, a))
                       => /\ IsArr(ValueAt(pret, a))
                          /\ SameValue(ValueAt(pret, a), ValueAt(po, a))
                 /\ IsObj(ValueAt(po, a)) => IsObj(ValueAt(pret, a)) \/ pcall = "delete"

\* C25: a step that replaces the overrides (updateUserSetting,
\* resetUserSetting, resetSection, resetAllUserSettings, loadUserSettings)
\* leaves defaults, schema and docsMap as they are; defaults and docsMap
\* change only when loadDefaults resolves, schema only in loadSchema
C25_DefaultsReadOnly ==
    [][ /\ user' # user => UNCHANGED <<defaults, schema, docsMap>>
        /\ (defaults' # defaults \/ docsMap' # docsMap)
              => fetching /\ ~fetching' /\ user' = user /\ schema' = schema
        /\ schema' # schema => UNCHANGED <<defaults, user, docsMap>> ]_vars

\* overrides were written with defaults, documentation and a schema loaded
C25_Witness ==
    /\ IsNonEmptyObj(user)
    /\ IsNonEmptyObj(defaults)
    /\ docsMap # {}
    /\ schema # Null

\* C26: in every reachable state the next read of allAtomicPaths and of
\* hasChildrenSet gives two disjoint sets: no path is both a field and a
\* branch
C26_BranchesAndFieldsDisjoint ==
    LET next == updateAtomicPathsCache(defaults, user, atomicPathsCache, pathsCache).apc
    IN  next.allPaths \cap next.hasChildrenSet = {}

\* C27: in every reachable state the delta, which handleExport writes out,
\* is the empty object if and only if changedPaths is empty
C27_DeltaAgreesWithChangedPaths ==
    IsEmptyObj(delta) <=> changedPaths = {}

\* C28: right after updateUserSetting(p, v), with v a primitive, null or an
\* array, the value read at p in the effective tree is v, whatever defaults
\* and the overrides held before
C28_ReadYourWrites ==
    (pcall = "set" /\ ~IsObj(pval))
        => SameValue(readValueByPath(effective, ppath), pval)

\* a write was read back at a path an ancestor of which held something
\* other than an object, in defaults and in the overrides
C28_Witness ==
    /\ pcall = "set"
    /\ IsArr(pval)
    /\ SameValue(readValueByPath(effective, ppath), pval)
    /\ ~SameValue(readValueByPath(defaults, ppath), pval)
    /\ \E a \in ProperPrefixes(SplitDots(ppath)) :
          /\ ~IsUndef(ValueAt(defaults, a)) /\ ~IsObj(ValueAt(defaults, a))
          /\ ~IsUndef(ValueAt(po, a)) /\ ~IsObj(ValueAt(po, a))

\* the dotted paths at or below the path ks
AtOrBelow(ks) == {path \in changedPaths \cup customPaths : IsPrefix(ks, SplitDots(path))}

\* C29: right after resetUserSetting(p) or resetSection(p), with p a leaf
\* path or the path of a nested section present in the overrides, p is
\* absent from the overrides, neither p nor a path below it is in
\* changedPaths or customPaths, and the value read at p in the effective
\* tree is the value read at p in defaults
C29_ResetRestoresDefault ==
    LET p == SplitDots(ppath)
    IN  (pcall \in {"delete", "section"} /\ ~IsUndef(ValueAt(po, p)))
           => /\ IsUndef(ValueAt(user, p))
              /\ AtOrBelow(p) = {}
              /\ SameValue(readValueByPath(effective, ppath), readValueByPath(defaults, ppath))

\* a changed field was reset next to a sibling that stays overridden, and
\* the default shows again
C29_Witness ==
    LET p == SplitDots(ppath)
    IN  /\ pcall = "delete"
        /\ Len(p) = 2
        /\ ~IsUndef(ValueAt(po, p))
        /\ ~IsUndef(readValueByPath(defaults, ppath))
        /\ ~SameValue(ValueAt(po, p), readValueByPath(defaults, ppath))
        /\ IsNonEmptyObj(user)
        /\ C29_ResetRestoresDefault

\* what the steps of loadDefaults do: the call, and the end of the fetch
LoadDefaultsSteps ==
    /\ (~fetching /\ fetching')
          => loading' /\ error' = "null" /\ UNCHANGED <<defaults, docsMap, user>>
    /\ (fetching /\ ~fetching')
          => /\ ~loading'
             /\ user' = user
             /\ \/ error' = "null" /\ defaults' # defaults
                \/ /\ error' \notin {"null", ""}
                   /\ UNCHANGED <<defaults, docsMap>>

\* C30: a call of loadDefaults sets loading and clears error; it ends, under
\* every interleaving with user mutations, with loading false; when the
\* fetch failed error holds a message and defaults and docsMap are as they
\* were, otherwise defaults is replaced and error is still null; no step of
\* loadDefaults changes the overrides
C30_LoadDefaultsProtocol ==
    /\ [][LoadDefaultsSteps]_vars
    /\ fetching ~> (~fetching /\ ~loading)

\* a load failed after an earlier one succeeded and the user wrote overrides
C30_Witness ==
    /\ ~fetching /\ ~loading
    /\ error # "null"
    /\ IsNonEmptyObj(defaults)
    /\ docsMap # {}
    /\ IsNonEmptyObj(user)

\* ------------------------------------------- claims on getChangedPaths
\* the JSON Pointer of a sequence of keys
RECURSIVE PointerOf(_)
PointerOf(ks) == IF Len(ks) = 0 THEN << >> ELSE <<"/", Head(ks)>> \o PointerOf(Tail(ks))
\* the paths reached by descending through keys that hold a plain object in
\* both trees
ReachedInBoth(e, d) ==
    {p \in AllPaths(e) \cup AllPaths(d) :
        \A a \in ProperPrefixes(p) : IsObj(ValueAt(e, a)) /\ IsObj(ValueAt(d, a))}
ChangedPathsOf == pcall = "getChangedPaths" /\ IsObj(po) /\ IsObj(pd)

\* C22: getChangedPaths(e, d) is exactly the set of pointers of the paths,
\* reached through plain objects of both trees, at which the two values are
\* not structurally equal; a key of only one tree is reported, and so is
\* every ancestor of a reported path
C22_ChangedPathsExact ==
    ChangedPathsOf =>
        /\ pret.paths = {PointerOf(p) : p \in {q \in ReachedInBoth(po, pd) :
                              ~SameValue(ValueAt(po, q), ValueAt(pd, q))}}
        /\ \A key \in (DOMAIN po.f \cup DOMAIN pd.f) \ (DOMAIN po.f \cap DOMAIN pd.f) :
              PointerOf(<<key>>) \in pret.paths
        /\ \A p \in AllPaths(po) \cup AllPaths(pd) :
              PointerOf(p) \in pret.paths
                 => \A a \in ProperPrefixes(p) : PointerOf(a) \in pret.paths

\* a nested change, a key of one tree only and an unchanged sibling
C22_Witness ==
    /\ ChangedPathsOf
    /\ \E p \in ReachedInBoth(po, pd) : Len(p) = 2 /\ PointerOf(p) \in pret.paths
    /\ \E p \in ReachedInBoth(po, pd) : Len(p) = 2 /\ PointerOf(p) \notin pret.paths
    /\ DOMAIN po.f # DOMAIN pd.f

\* --------------------------------- further claims on settingsDetailedDiff
\* C24: the added and modified lists of settingsDetailedDiff(o, d) hold only
\* leaf paths of o, never the path of a non-empty nested object, and the
\* delta holds no leaf at which the value of o equals the value of d
C24_ReviewListsLeavesOnly ==
    (pcall = "settingsDetailedDiff" /\ IsObj(po) /\ IsObj(pd))
        => /\ \A path \in Range(pret.added) \cup Range(pret.modified) :
                 /\ path \in {Dotted(p) : p \in LeafPaths(po)}
                 /\ ~IsNonEmptyObj(ValueAt(po, SplitDots(path)))
           /\ \A p \in LeafPaths(pret.delta) :
                 ~SameValue(ValueAt(po, p), ValueAt(pd, p))

\* ---------------------------------------------------- claims on share links
\* the characters of EncChars that URL-safe base64 is written with
UrlSafeChars == {"e", "3", "0", "M", "-", "_"}
\* unpadded URL-safe base64: its characters only, and never 4n + 1 of them
ValidUrlSafeBase64(s) ==
    /\ \A i \in DOMAIN s : s[i] \in UrlSafeChars
    /\ Len(s) % 4 # 1
\* the link carries a config parameter, pval
CarriesConfig == Includes(ppath, "config=") /\ ppath \in LinksWith(pval)
\* decoding the parameter fails: atob or JSON.parse rejects it
DecodeFails == decodeConfig(ReplaceChar(pval, "+", <<Space>>)).threw
\* the attempt ended softly: null from parseShareUrl, false from
\* loadFromUrl, no exception, and the store as it was
FailedSoft ==
    /\ pret.threw = FALSE
    /\ pcall = "parseShareUrl" => pret.value = Null
    /\ pcall = "loadFromUrl" => pret.value = FALSE
    /\ user = po
    /\ defaults = pd

\* C21 as stated: a config parameter that is not valid URL-safe base64, or
\* that does not decode to valid JSON, gives null from parseShareUrl and
\* false from loadFromUrl, without an exception and with the store unchanged.
C21_NotUrlSafeFailsSoft ==
    (pcall # "none" /\ CarriesConfig /\ (~ValidUrlSafeBase64(pval) \/ DecodeFails))
        => FailedSoft

\* C21 amended: whenever decoding the config parameter fails, parseShareUrl
\* returns null and loadFromUrl returns false, without an exception and with
\* overrides and defaults unchanged.
C21_DecodeFailureFailsSoft ==
    (pcall # "none" /\ CarriesConfig /\ DecodeFails) => FailedSoft

\* loadFromUrl met a parameter of URL-safe base64 whose text is not JSON
C21_Witness ==
    /\ pcall = "loadFromUrl"
    /\ Len(ppath) > 0 /\ Head(ppath) = "?"
    /\ CarriesConfig
    /\ ValidUrlSafeBase64(pval)
    /\ Len(pval) > 0
    /\ DecodeFails
    /\ FailedSoft
    /\ IsNonEmptyObj(user)

====
